---- MODULE Spec2Model ----
(***************************************************************************)
(* Model of the remote-login session manager                               *)
(* (src/src/server/routes/remote-login.ts), the browser helpers it calls   *)
(* (src/src/server/lib/auth.ts), the in-memory cookie store                *)
(* (src/unnamed/part_006, lib/cookies.js) and the generate and upscale     *)
(* routes (src/src/server/routes/generate.ts).                             *)
(*                                                                         *)
(* Node runs every handler to completion, so one action is one handler     *)
(* (or the part of an async handler between two awaits).                   *)
(***************************************************************************)
EXTENDS Integers, FiniteSets, Sequences, TLC

\* ---- bounds ----
MaxStarts == 2      \* POST /remote-login/start requests issued
MaxConns  == 2      \* relay (WebSocket) connections opened by observers
MaxClients == 3     \* start requests plus relay connections, in total
MaxTimers == 2      \* pending grace timers (caps the unbounded timer count)
MaxVal    == 1      \* distinct non-empty cookie values (0 is the empty string)
MaxHdrs   == 2      \* Set-Cookie headers carried by one response
MaxSegs   == 2      \* ";"-separated segments of GOOGLE_COOKIES
MaxRefresh == 2     \* calls of refreshCookiesFromResponse
MaxAtt    == 2      \* attachments of one generate request
MaxImgs   == 2      \* images found in one StreamGenerate response
MaxClicks == 2      \* click messages of one observer
MaxCalls  == 3      \* concurrent calls of ensureChromium
MaxLogins == 3      \* requests to the local login endpoint
MaxUrl    == 2      \* distinct image URLs in one streamed response
MaxId     == 2      \* distinct conversation / response ids in one streamed response
MaxEntries == 2     \* entries in one line of a full-size response
MaxHops   == 8      \* downloadImageToBuffer: for (let i = 0; i < 8; i++)

PSID   == "__Secure-1PSID"
PSIDTS == "__Secure-1PSIDTS"
Mandatory   == {PSID, PSIDTS}
OtherNames  == {"NID"}
CookieNames == Mandatory \cup OtherNames

StartIds == 1..MaxStarts
ConnIds  == 1..MaxConns
TabIds   == 0..MaxStarts        \* tab 0 is the about:blank tab Chromium is spawned with

\* A JS object used as a string map is a function whose DOMAIN is its key set.
EmptyObj == [n \in {} |-> 0]
Truthy(o, n) == n \in DOMAIN o /\ o[n] # 0

NoSession == [status |-> "none"]
NoReply == [op |-> "none", code |-> 0]
Reply(op, code) == [op |-> op, code |-> code]
NoConn == [state |-> "unused", tab |-> 0, sid |-> 0, captured |-> EmptyObj]

RefreshIds == 1..MaxRefresh
NoFile == [exists |-> FALSE, lines |-> EmptyObj]
File(lines) == [exists |-> TRUE, lines |-> lines]
\* a JS object together with the order of its own keys
EmptyOO == [keys |-> <<>>, val |-> EmptyObj]
NoRefresh == [pc |-> "idle", updates |-> EmptyOO, content |-> EmptyObj, result |-> "none"]
BoundedSeq(S, n) == UNION {[1..k -> S] : k \in 0..n}

\* ---- a generation or upscale request: routes/generate.ts, lib/auth.ts ----
AttIds == 1..MaxAtt
Null == -1                      \* null, as distinct from the empty string 0
NoTokens == [ok |-> FALSE]
NoRes == [status |-> 0, updates |-> EmptyOO]
NoCall ==
  [pc |-> "idle", kind |-> "none", valid |-> FALSE, natt |-> 0, att |-> 0,
   res |-> NoRes, tokens |-> NoTokens, cookies |-> <<>>,
   initRes |-> "none", genRes |-> "none", nimages |-> 0, npng |-> 0, img |-> 0, saved |-> 0, status |-> 0,
   error |-> "none"]
NoReqs ==
  [tokens |-> 0, init |-> [a \in AttIds |-> 0], fin |-> [a \in AttIds |-> 0],
   gen |-> 0, rpc |-> 0, dl |-> 0]

VARIABLES
  session,      \* let session: LoginSession | null
  store,        \* cookies.js: const store = {}
  tabs,         \* browser tabs: "none" | "blank" | "open" (navigated) | "closed"
  closing,      \* tab ids whose asynchronous close (closeSession) is in flight
  deadline,     \* pending setTimeout(SESSION_TIMEOUT_MS) handles, named by their request
  graceTimers,  \* number of pending setTimeout(() => closeSession(), 4000)
  pc,           \* per start request: position in the async handler / response
  tabOf,        \* per start request: tab returned by cdpNewTab
  conns,        \* per relay connection: closure state of handleRemoteLoginWs
  observed,     \* cookie names that appeared on the running session's network
                \* stream while one of its relays was listening
  unobserved,   \* ... and while no relay was listening (both histories are
                \* kept for a running session only)
  lastReply,    \* the HTTP response sent most recently
  keyOrder,     \* cookies.js: Object.keys(store), the insertion order of its keys
  booted,       \* loadFromEnv() has run (index.ts calls it once at start-up)
  envFile,      \* the .env file: whether it exists, and its KEY=VAL lines as a map
  rf,           \* per call of refreshCookiesFromResponse: position and locals
  fnArg,        \* the argument of the function under study (functional specifications)
  fnRes,        \* its progress or result
  call,         \* one POST /api/generate or /api/upscale request: position and locals
  reqs          \* upstream requests sent for it, per protocol step

storeVars == <<keyOrder, booted, envFile, rf>>
fnVars == <<fnArg, fnRes>>
callVars == <<call, reqs>>
apiVars == <<storeVars, fnVars, callVars>>
loginVars == <<session, tabs, closing, deadline, graceTimers, pc, tabOf,
               conns, observed, unobserved, lastReply>>

vars == <<session, store, tabs, closing, deadline, graceTimers, pc, tabOf,
          conns, observed, unobserved, lastReply, keyOrder, booted, envFile, rf,
          fnArg, fnRes, call, reqs>>

\* ---- cookie store (lib/cookies.js) ----
ObjectAssign(target, obj) ==
  [n \in DOMAIN target \cup DOMAIN obj |->
     IF n \in DOMAIN obj THEN obj[n] ELSE target[n]]

setCookies(st, obj) == ObjectAssign(st, obj)

hasCookies(st) == Truthy(st, PSID) /\ Truthy(st, PSIDTS)

\* ---- session helpers ----
Running == session # NoSession /\ session.status = "running"

\* GET /remote-login/status
StatusOp == IF session = NoSession THEN "idle" ELSE session.status

\* variant: the handle is not cancelled
clearTimeoutSkipped(d, h) == d

clearTimeout(d, h) == d \ {h}

\* closeSession(): drop the record, cancel its timer, close its tab asynchronously
closeSession(d) ==
  IF session = NoSession
    THEN /\ session' = session
         /\ deadline' = d
         /\ closing' = closing
         /\ UNCHANGED <<observed, unobserved>>
    ELSE /\ session' = NoSession
         /\ deadline' = clearTimeout(d, session.id)
         /\ closing' = closing \cup {session.tabId}
         /\ observed' = {}
         /\ unobserved' = {}

Init ==
  /\ session = NoSession
  /\ store = EmptyObj
  /\ tabs = [t \in TabIds |-> IF t = 0 THEN "blank" ELSE "none"]
  /\ closing = {}
  /\ deadline = {}
  /\ graceTimers = 0
  /\ pc = [r \in StartIds |-> "init"]
  /\ tabOf = [r \in StartIds |-> 0]
  /\ conns = [c \in ConnIds |-> NoConn]
  /\ observed = {}
  /\ unobserved = {}
  /\ lastReply = NoReply
  /\ keyOrder = <<>>
  /\ booted = TRUE
  /\ envFile = NoFile
  /\ rf = [i \in RefreshIds |-> NoRefresh]
  /\ fnArg = 0
  /\ fnRes = 0
  /\ call = NoCall
  /\ reqs = NoReqs

\* clients (start requests, relay connections) that have arrived so far
Arrived == Cardinality({r \in StartIds : pc[r] # "init"})
           + Cardinality({c \in ConnIds : conns[c].state # "unused"})

\* ---- POST /remote-login/start ----
\* variant: the status comparison inverted
StartRejectsInverted == session # NoSession /\ session.status # "running"

\* line 79
StartRejects == session # NoSession /\ session.status = "running"

\* lines 79-88: the 409 check, closeSession(), then the first await
StartRequest(r) ==
  /\ pc[r] = "init"
  /\ Arrived < MaxClients
  /\ \A q \in StartIds : q < r => pc[q] # "init"     \* requests are numbered in arrival order
  /\ IF StartRejects
       THEN /\ pc' = [pc EXCEPT ![r] = "rejected"]
            /\ lastReply' = Reply("start", 409)
            /\ UNCHANGED <<session, deadline, closing, observed, unobserved>>
       ELSE /\ pc' = [pc EXCEPT ![r] = "creating"]
            /\ lastReply' = lastReply
            /\ closeSession(deadline)
  /\ UNCHANGED <<store, tabs, graceTimers, tabOf, conns>>
  /\ UNCHANGED apiVars

\* cdpNewTab, auth.ts lines 345-355: PUT /json/new gives a fresh about:blank
\* tab; when that fails the first listed tab is returned instead; with no tab
\* listed it throws
cdpNewTab(r, outcome, t, tb) ==
  CASE outcome = "new"      -> t = r /\ tb[r] = "none"
    [] outcome = "fallback" -> tb[t] \in {"blank", "open"}
    [] OTHER                -> FALSE

\* cdpCloseTab for each tab of S, auth.ts lines 357-359
cdpCloseTabs(tb, S) == [t \in TabIds |-> IF t \in S THEN "closed" ELSE tb[t]]

\* Page.navigate, auth.ts lines 382-398: a socket error just resolves, leaving
\* the tab where it was
navigate(tb, t, ok) == [tb EXCEPT ![t] = IF ok /\ @ \in {"blank", "open"} THEN "open" ELSE @]

\* createLoginScreencast, auth.ts lines 366-402, awaited at line 88.
\* ensureChromium() or cdpListTabs() may reject ("fail"), which the handler's
\* catch turns into a 500.  The listed non-blank tabs are closed one by one and
\* cdpCloseTab swallows its errors, so some subset S of the open tabs is
\* closed; then the new tab is obtained (or cdpNewTab throws: "notab") and
\* navigated.
createLoginScreencast(r, outcome, S, t, navOk) ==
  /\ pc[r] = "creating"
  /\ IF outcome = "fail"
       THEN /\ pc' = [pc EXCEPT ![r] = "failed"]
            /\ lastReply' = Reply("start", 500)
            /\ UNCHANGED <<tabs, tabOf>>
       ELSE /\ S \subseteq {u \in TabIds : tabs[u] = "open"}
            /\ IF outcome = "notab"
                 THEN /\ tabs' = cdpCloseTabs(tabs, S)
                      /\ pc' = [pc EXCEPT ![r] = "failed"]
                      /\ lastReply' = Reply("start", 500)
                      /\ tabOf' = tabOf
                 ELSE /\ cdpNewTab(r, outcome, t, cdpCloseTabs(tabs, S))
                      /\ tabs' = navigate([cdpCloseTabs(tabs, S) EXCEPT ![t] =
                                             IF outcome = "new" THEN "blank" ELSE @],
                                          t, navOk)
                      /\ tabOf' = [tabOf EXCEPT ![r] = t]
                      /\ pc' = [pc EXCEPT ![r] = "finish"]
                      /\ lastReply' = lastReply
  /\ UNCHANGED <<session, store, closing, deadline, graceTimers,
                 conns, observed, unobserved>>
  /\ UNCHANGED apiVars

\* lines 90-109: arm the deadline timer, install the session record, answer 200
StartFinish(r) ==
  /\ pc[r] = "finish"
  /\ deadline' = deadline \cup {r}
  /\ session' = [id |-> r, tabId |-> tabOf[r], status |-> "running"]
  /\ observed' = {}
  /\ unobserved' = {}
  /\ pc' = [pc EXCEPT ![r] = "accepted"]
  /\ lastReply' = Reply("start", 200)
  /\ tabOf' = [tabOf EXCEPT ![r] = 0]          \* the handler's local goes out of scope
  /\ UNCHANGED <<store, tabs, closing, graceTimers, conns>>
  /\ UNCHANGED apiVars

\* lines 90-97: the deadline callback
DeadlineFire(r) ==
  /\ r \in deadline
  /\ IF session # NoSession /\ session.status = "running"
       THEN closeSession(deadline \ {r})
       ELSE /\ deadline' = deadline \ {r}
            /\ UNCHANGED <<session, closing, observed, unobserved>>
  /\ UNCHANGED <<store, tabs, graceTimers, pc, tabOf, conns, lastReply>>
  /\ UNCHANGED apiVars

\* line 172: setTimeout(() => closeSession(), 4000) expiring
GraceFire ==
  /\ graceTimers > 0
  /\ graceTimers' = graceTimers - 1
  /\ closeSession(deadline)
  /\ UNCHANGED <<store, tabs, pc, tabOf, conns, lastReply>>
  /\ UNCHANGED apiVars

\* POST /remote-login/stop
StopRequest ==
  /\ closeSession(deadline)
  /\ lastReply' = Reply("stop", 200)
  /\ UNCHANGED <<store, tabs, graceTimers, pc, tabOf, conns>>
  /\ UNCHANGED apiVars

\* closeSession lines 39-47: cdpListTabs().then(close the tab if listed);
\* both requests may fail and the failure is swallowed
AsyncCloseTab(t, ok) ==
  /\ t \in closing
  /\ closing' = closing \ {t}
  /\ tabs' = [tabs EXCEPT ![t] = IF ok /\ @ \in {"blank", "open"} THEN "closed" ELSE @]
  /\ UNCHANGED <<session, store, deadline, graceTimers, pc, tabOf,
                 conns, observed, unobserved, lastReply>>
  /\ UNCHANGED apiVars

\* ---- relay: handleRemoteLoginWs ----
\* the names the capture code accepts: /^(__Secure-1PSID[A-Z]*)=/ and
\* startsWith("__Secure-1PSID")
PrefixMatch(n) == n \in Mandatory

\* what the browser reports for one network exchange: cookie name -> value
RawEvents == UNION {[S -> 0..MaxVal] : S \in SUBSET CookieNames}

\* lines 205-218 (Set-Cookie entries matching the regex, value [^;]+) and
\* lines 220-243 (request cookies with the prefix and a non-empty value)
ParseCookies(kind, raw) ==
  LET keep == {n \in DOMAIN raw : PrefixMatch(n) /\ raw[n] # 0}
  IN  [n \in keep |-> raw[n]]

EventKinds == {"response", "request"}

\* the capture-relevant content of every event the browser can report
ParsedEvents == {ParseCookies(k, raw) : k \in EventKinds, raw \in RawEvents}

\* both sockets closed: nothing of the closure is reachable any more
ClosedConn == [NoConn EXCEPT !.state = "closed"]

\* variant: any session record is enough, whatever its status
WsAcceptsAnySession == session # NoSession

\* lines 139-148: the upgrade callback
WsAccepts == session # NoSession /\ session.status = "running"

WsConnect(c) ==
  /\ conns[c].state = "unused"
  /\ Arrived < MaxClients
  /\ \A d \in ConnIds : d < c => conns[d].state # "unused"   \* numbered in arrival order
  /\ IF WsAccepts
       THEN conns' = [conns EXCEPT ![c] =
              [state |-> "connecting", tab |-> session.tabId, sid |-> session.id,
               captured |-> EmptyObj]]
       ELSE conns' = [conns EXCEPT ![c] = ClosedConn]
  /\ UNCHANGED <<session, store, tabs, closing, deadline, graceTimers, pc, tabOf,
                 observed, unobserved, lastReply>>
  /\ UNCHANGED apiVars

\* lines 176-185: cdpWs "open" (Page.enable, Network.enable, startScreencast)
CdpOpen(c) ==
  /\ conns[c].state = "connecting"
  /\ tabs[conns[c].tab] \in {"blank", "open"}
  /\ conns' = [conns EXCEPT ![c].state = "open"]
  /\ UNCHANGED <<session, store, tabs, closing, deadline, graceTimers, pc, tabOf,
                 observed, unobserved, lastReply>>
  /\ UNCHANGED apiVars

\* lines 304-308: cleanup closes both sockets
cleanup(conn) == ClosedConn

\* lines 312-315: cdpWs "error" closes the observer socket, whose "close"
\* handler runs cleanup; the session record is not touched
CdpError(c) ==
  /\ conns[c].state \in {"connecting", "open"}
  /\ conns' = [conns EXCEPT ![c] = cleanup(@)]
  /\ UNCHANGED <<session, store, tabs, closing, deadline, graceTimers, pc, tabOf,
                 observed, unobserved, lastReply>>
  /\ UNCHANGED apiVars

\* line 310: the observer disconnects
ClientClose(c) ==
  /\ conns[c].state \in {"connecting", "open"}
  /\ conns' = [conns EXCEPT ![c] = cleanup(@)]
  /\ UNCHANGED <<session, store, tabs, closing, deadline, graceTimers, pc, tabOf,
                 observed, unobserved, lastReply>>
  /\ UNCHANGED apiVars

\* line 311: cdpWs "close" because the tab went away
CdpClosed(c) ==
  /\ conns[c].state \in {"connecting", "open"}
  /\ tabs[conns[c].tab] = "closed"
  /\ conns' = [conns EXCEPT ![c] = cleanup(@)]
  /\ UNCHANGED <<session, store, tabs, closing, deadline, graceTimers, pc, tabOf,
                 observed, unobserved, lastReply>>
  /\ UNCHANGED apiVars

\* variant: the status is set without the merge into the store
checkAndCaptureNoMerge(st, captured) ==
  IF Truthy(captured, PSID) /\ Truthy(captured, PSIDTS) /\ st.session # NoSession
    THEN [session  |-> [st.session EXCEPT !.status = "success"],
          store    |-> st.store,
          timers   |-> st.timers + 1]
    ELSE st

\* lines 158-174, as a function of the state st it finds: the record st.session
\* is set to success, the capture map merged into st.store, one more grace
\* timer armed (and {type: "success"} sent to the observer)
checkAndCapture(st, captured) ==
  IF Truthy(captured, PSID) /\ Truthy(captured, PSIDTS) /\ st.session # NoSession
    THEN [session  |-> [st.session EXCEPT !.status = "success"],
          store    |-> setCookies(st.store, captured),
          timers   |-> st.timers + 1]
    ELSE st

\* lines 187-247: cdpWs "message" with a Network.*ExtraInfo event carrying the
\* cookies upd, on the connection whose capture map is cap
cdpMessage(st, cap, upd) == checkAndCapture(st, ObjectAssign(cap, upd))

\* The browser performs a network exchange in tab t.  Every debugging socket
\* open on t has sent Network.enable, so each gets the extra-info event; their
\* "message" handlers run one after the other.
Listening(c, t) == conns[c].state = "open" /\ conns[c].tab = t

RECURSIVE Deliver(_, _, _, _)
Deliver(st, c, t, upd) ==
  IF c \notin ConnIds THEN st
  ELSE Deliver(IF Listening(c, t) THEN cdpMessage(st, conns[c].captured, upd) ELSE st,
               c + 1, t, upd)

BrowserNetwork(t, upd) ==
  LET lsn  == {c \in ConnIds : Listening(c, t)}
      st   == Deliver([session |-> session, store |-> store,
                       timers |-> graceTimers], 1, t, upd)
      mine == Running /\ session.tabId = t
      live == st.session # NoSession /\ st.session.status = "running"
  IN  /\ tabs[t] = "open"
      /\ graceTimers + Cardinality(lsn) <= MaxTimers
      /\ conns' = [c \in ConnIds |->
                     IF c \in lsn
                       THEN [conns[c] EXCEPT !.captured = ObjectAssign(@, upd)]
                       ELSE conns[c]]
      /\ session' = st.session
      /\ store' = st.store
      /\ graceTimers' = st.timers
      /\ observed' = IF ~live THEN {}
                      ELSE IF mine /\ \E c \in lsn : conns[c].sid = session.id
                             THEN observed \cup DOMAIN upd ELSE observed
      /\ unobserved' = IF ~live THEN {}
                        ELSE IF mine /\ lsn = {}
                               THEN unobserved \cup DOMAIN upd ELSE unobserved
      /\ UNCHANGED <<tabs, closing, deadline, pc, tabOf, lastReply>>
      /\ UNCHANGED apiVars

Next ==
  \/ \E r \in StartIds : StartRequest(r)
  \/ \E r \in StartIds, o \in {"new", "fallback", "notab", "fail"}, S \in SUBSET TabIds,
        t \in TabIds, navOk \in BOOLEAN : createLoginScreencast(r, o, S, t, navOk)
  \/ \E r \in StartIds : StartFinish(r)
  \/ \E r \in StartIds : DeadlineFire(r)
  \/ GraceFire
  \/ StopRequest
  \/ \E t \in TabIds, ok \in BOOLEAN : AsyncCloseTab(t, ok)
  \/ \E c \in ConnIds : WsConnect(c)
  \/ \E c \in ConnIds : CdpOpen(c)
  \/ \E c \in ConnIds : CdpError(c)
  \/ \E c \in ConnIds : ClientClose(c)
  \/ \E c \in ConnIds : CdpClosed(c)
  \/ \E t \in TabIds, upd \in ParsedEvents : BrowserNetwork(t, upd)

Spec == Init /\ [][Next]_vars

\* ---------------------------------------------------------------------------
\* Cookie store (lib/cookies.js): key order, boot-time load, Set-Cookie
\* refresh and its persistence to the .env file.  The session manager above
\* never reads the key order, so it is tracked from here on only.
\* ---------------------------------------------------------------------------

\* variant: the key is appended even when the object has it
OOSetAppend(o, k, v) ==
  [keys |-> Append(o.keys, k),
   val  |-> [n \in DOMAIN o.val \cup {k} |-> IF n = k THEN v ELSE o.val[n]]]

\* obj[k] = v on an object with ordered keys: a new key goes last
OOSet(o, k, v) ==
  [keys |-> IF k \in DOMAIN o.val THEN o.keys ELSE Append(o.keys, k),
   val  |-> [n \in DOMAIN o.val \cup {k} |-> IF n = k THEN v ELSE o.val[n]]]

\* Object.assign(target, src): the source's own keys, in their order
RECURSIVE OOAssignFrom(_, _, _)
OOAssignFrom(o, src, i) ==
  IF i > Len(src.keys) THEN o
  ELSE OOAssignFrom(OOSet(o, src.keys[i], src.val[src.keys[i]]), src, i + 1)

\* variant: the target's entries are dropped
ObjectReplace(target, src) == src

ObjectAssignOrdered(target, src) == OOAssignFrom(target, src, 1)

\* const store = {}
StoreObj == [keys |-> keyOrder, val |-> store]

\* getCookieString(): the "k=v" items, in key order, joined by "; "
getCookieString(o) == [i \in 1..Len(o.keys) |-> <<o.keys[i], o.val[o.keys[i]]>>]

\* setCookies(obj): Object.assign(store, obj)
setCookiesOrdered(o, obj) == ObjectAssignOrdered(o, obj)

\* the objects with ordered keys over the names N and the values V
RECURSIVE OrderedObjects(_, _)
OrderedObjects(N, V) ==
  {EmptyOO} \cup
  UNION {{[keys |-> Append(o.keys, n),
            val  |-> [m \in DOMAIN o.val \cup {n} |-> IF m = n THEN v ELSE o.val[m]]] :
             o \in OrderedObjects(N \ {n}, V), v \in V} : n \in N}

\* what the callers of setCookies pass: a capture map (checkAndCapture,
\* tryRestoreSession, loginFlow) holding both mandatory cookies, every value
\* non-empty
CaptureMaps ==
  {o \in OrderedObjects({n \in CookieNames : PrefixMatch(n)}, 1..MaxVal) :
     Mandatory \subseteq DOMAIN o.val}

SetCookiesCall(obj) ==
  /\ booted
  /\ store' = setCookiesOrdered(StoreObj, obj).val
  /\ keyOrder' = setCookiesOrdered(StoreObj, obj).keys
  /\ UNCHANGED <<booted, envFile, rf, loginVars, fnVars, callVars>>

\* every map a caller may merge: any names, any values, in any key order
UpdateMaps == OrderedObjects(CookieNames, 0..MaxVal)

\* setCookies as a function: any store content, any update map, merged once and
\* then once more
InitMerge ==
  /\ session = NoSession
  /\ tabs = [t \in TabIds |-> IF t = 0 THEN "blank" ELSE "none"]
  /\ closing = {}
  /\ deadline = {}
  /\ graceTimers = 0
  /\ pc = [r \in StartIds |-> "init"]
  /\ tabOf = [r \in StartIds |-> 0]
  /\ conns = [c \in ConnIds |-> NoConn]
  /\ observed = {}
  /\ unobserved = {}
  /\ lastReply = NoReply
  /\ booted = TRUE
  /\ envFile = NoFile
  /\ rf = [i \in RefreshIds |-> NoRefresh]
  /\ \E o \in UpdateMaps : store = o.val /\ keyOrder = o.keys
  /\ fnArg \in UpdateMaps
  /\ fnRes = 0
  /\ call = NoCall
  /\ reqs = NoReqs

MergeOnce ==
  /\ fnRes = 0
  /\ fnRes' = 1
  /\ store' = setCookiesOrdered(StoreObj, fnArg).val
  /\ keyOrder' = setCookiesOrdered(StoreObj, fnArg).keys
  /\ UNCHANGED <<booted, envFile, rf, loginVars, fnArg, callVars>>

MergeAgain ==
  /\ fnRes = 1
  /\ fnRes' = 2
  /\ store' = setCookiesOrdered(StoreObj, fnArg).val
  /\ keyOrder' = setCookiesOrdered(StoreObj, fnArg).keys
  /\ UNCHANGED <<booted, envFile, rf, loginVars, fnArg, callVars>>

NextMerge == MergeOnce \/ MergeAgain

SpecMerge == InitMerge /\ [][NextMerge]_vars

\* one ";"-separated segment of GOOGLE_COOKIES: a trimmed name (possibly
\* empty), whether it has an "=", and the trimmed value after it
EnvNames == Mandatory \cup {""}
Segments ==
  {[name |-> n, eq |-> TRUE, value |-> v] : n \in EnvNames, v \in 0..MaxVal}
  \cup {[name |-> n, eq |-> FALSE, value |-> 0] : n \in EnvNames}

\* process.env as loadFromEnv reads it; an unset variable is the empty one
Envs ==
  [GOOGLE_COOKIES : BoundedSeq(Segments, MaxSegs), psid : 0..MaxVal, psidts : 0..MaxVal]

\* lines 29-34: idx = pair.indexOf("=") is > 0 only with an "=" after a
\* non-empty name; the value may be empty
RECURSIVE ParseGoogleCookies(_, _, _)
ParseGoogleCookies(segs, i, o) ==
  IF i > Len(segs) THEN o
  ELSE ParseGoogleCookies(segs, i + 1,
         IF segs[i].eq /\ segs[i].name # ""
           THEN OOSet(o, segs[i].name, segs[i].value) ELSE o)

\* loadFromEnv(), lines 26-41
loadFromEnv(o, env) ==
  IF env.GOOGLE_COOKIES # <<>>
    THEN ParseGoogleCookies(env.GOOGLE_COOKIES, 1, o)
    ELSE LET a == IF env.psid # 0 THEN OOSet(o, PSID, env.psid) ELSE o
         IN  IF env.psidts # 0 THEN OOSet(a, PSIDTS, env.psidts) ELSE a

\* every outcome of the boot-time call on the empty store
Boots == {loadFromEnv(EmptyOO, env) : env \in Envs}

\* index.ts line 10: the boot-time call
LoadFromEnvCall(b) ==
  /\ ~booted
  /\ booted' = TRUE
  /\ store' = b.val
  /\ keyOrder' = b.keys
  /\ UNCHANGED <<envFile, rf, loginVars, fnVars, callVars>>

\* the Set-Cookie headers of one response
SetCookieHeaders ==
  BoundedSeq([name : CookieNames, value : 0..MaxVal], MaxHdrs)

\* variant: the value group may be empty, ([^;]*)
RECURSIVE ParseSetCookieAnyValue(_, _, _)
ParseSetCookieAnyValue(hdrs, i, upd) ==
  IF i > Len(hdrs) THEN upd
  ELSE ParseSetCookieAnyValue(hdrs, i + 1,
         IF PrefixMatch(hdrs[i].name)
           THEN OOSet(upd, hdrs[i].name, hdrs[i].value) ELSE upd)

\* lines 45-50: sc.match(/^(__Secure-1PSID[A-Z]*)=([^;]+)/) needs a non-empty value
RECURSIVE ParseSetCookie(_, _, _)
ParseSetCookie(hdrs, i, upd) ==
  IF i > Len(hdrs) THEN upd
  ELSE ParseSetCookie(hdrs, i + 1,
         IF PrefixMatch(hdrs[i].name) /\ hdrs[i].value # 0
           THEN OOSet(upd, hdrs[i].name, hdrs[i].value) ELSE upd)

\* the updates object lines 45-50 build from the headers of any response
ParsedHeaders == {ParseSetCookie(hdrs, 1, EmptyOO) : hdrs \in SetCookieHeaders}

\* lines 51-54: refreshCookiesFromResponse up to its first await, upd being
\* the updates parsed from the response
\* variant: the updates are only persisted, the in-memory store is left alone
refreshMergeSkipped(o, upd) == o

\* line 54
refreshMerge(o, upd) == ObjectAssignOrdered(o, upd)

refreshStart(i, upd) ==
  /\ rf[i].pc = "idle"
  /\ \A j \in RefreshIds : j < i => rf[j].pc # "idle"     \* numbered in call order
  /\ IF upd.keys = <<>>
       THEN /\ rf' = [rf EXCEPT ![i] = [NoRefresh EXCEPT !.pc = "done", !.result = "false"]]
            /\ UNCHANGED <<store, keyOrder>>
       ELSE /\ rf' = [rf EXCEPT ![i] = [NoRefresh EXCEPT !.pc = "reading", !.updates = upd]]
            /\ store' = refreshMerge(StoreObj, upd).val
            /\ keyOrder' = refreshMerge(StoreObj, upd).keys

RefreshStart(i, upd) ==
  /\ booted
  /\ refreshStart(i, upd)
  /\ UNCHANGED <<booted, envFile, loginVars, fnVars, callVars>>

\* variant: the error of the persistence attempt reaches the caller
persistFailedRethrown(r) == [NoRefresh EXCEPT !.pc = "done", !.result = "threw"]

\* lines 80-84: the catch swallows the error, then "return true"
persistFailed(r) == [NoRefresh EXCEPT !.pc = "done", !.result = "true"]

\* lines 58-73: readFile resolves or rejects; on success every update replaces
\* its KEY=... line or is appended (process.env is assigned too, which nothing
\* reads after start-up); from here on only the new content is used
RefreshRead(i, ok) ==
  /\ rf[i].pc = "reading"
  /\ ok => envFile.exists
  /\ IF ok
       THEN rf' = [rf EXCEPT ![i] =
                    [NoRefresh EXCEPT !.pc = "writing",
                                      !.content = ObjectAssign(envFile.lines, rf[i].updates.val)]]
       ELSE rf' = [rf EXCEPT ![i] = persistFailed(@)]
  /\ UNCHANGED <<store, keyOrder, booted, envFile, loginVars, fnVars, callVars>>

\* lines 74-84: writeFile resolves, or rejects leaving the file as it was or
\* truncated
RefreshWrite(i, out) ==
  /\ rf[i].pc = "writing"
  /\ CASE out = "ok"        -> /\ envFile' = File(rf[i].content)
                               /\ rf' = [rf EXCEPT ![i] = [NoRefresh EXCEPT !.pc = "done",
                                                                            !.result = "true"]]
       [] out = "failed"    -> /\ envFile' = envFile
                               /\ rf' = [rf EXCEPT ![i] = persistFailed(@)]
       [] out = "truncated" -> /\ envFile' = File(EmptyObj)
                               /\ rf' = [rf EXCEPT ![i] = persistFailed(@)]
  /\ UNCHANGED <<store, keyOrder, booted, loginVars, fnVars, callVars>>

\* the .env file found at start-up
EnvFiles == {NoFile} \cup {File(f) : f \in UNION {[S -> 1..MaxVal] : S \in SUBSET Mandatory}}

InitStore ==
  /\ session = NoSession
  /\ store = EmptyObj
  /\ tabs = [t \in TabIds |-> IF t = 0 THEN "blank" ELSE "none"]
  /\ closing = {}
  /\ deadline = {}
  /\ graceTimers = 0
  /\ pc = [r \in StartIds |-> "init"]
  /\ tabOf = [r \in StartIds |-> 0]
  /\ conns = [c \in ConnIds |-> NoConn]
  /\ observed = {}
  /\ unobserved = {}
  /\ lastReply = NoReply
  /\ keyOrder = <<>>
  /\ booted = FALSE
  /\ envFile \in EnvFiles
  /\ rf = [i \in RefreshIds |-> NoRefresh]
  /\ fnArg = 0
  /\ fnRes = 0
  /\ call = NoCall
  /\ reqs = NoReqs

NextStore ==
  \/ \E b \in Boots : LoadFromEnvCall(b)
  \/ \E obj \in CaptureMaps : SetCookiesCall(obj)
  \/ \E i \in RefreshIds, upd \in ParsedHeaders : RefreshStart(i, upd)
  \/ \E i \in RefreshIds, ok \in BOOLEAN : RefreshRead(i, ok)
  \/ \E i \in RefreshIds, out \in {"ok", "failed", "truncated"} : RefreshWrite(i, out)

SpecStore == InitStore /\ [][NextStore]_vars

\* ---- token extraction: getSessionTokens (lib/auth.ts) ----
\* the five literals looked for in the root page
AT == "SNlM0e"
BL == "cfb2h"
FSID == "FdrFJe"
PUSHID == "qKIAYe"
PCTX == "Ylro7b"
MandatoryLiterals == {AT, BL, FSID}
Literals == MandatoryLiterals \cup {PUSHID, PCTX}

\* a root page, as far as extraction reads it: for each literal the page
\* contains, the quoted value that follows it (0 is "")
Pages == UNION {[S -> 0..MaxVal] : S \in SUBSET Literals}

\* html.match(/"KEY":"([^"]+)"/): the group needs at least one character
Match(html, key) == IF key \in DOMAIN html /\ html[key] # 0 THEN html[key] ELSE Null

\* variant: the session id is not required
parseTokensLax(html) ==
  IF Match(html, AT) = Null THEN [ok |-> FALSE, error |-> AT]
  ELSE IF Match(html, BL) = Null THEN [ok |-> FALSE, error |-> BL]
  ELSE [ok |-> TRUE, at |-> Match(html, AT), bl |-> Match(html, BL),
        fSid |-> Match(html, FSID), pushId |-> Match(html, PUSHID),
        clientPctx |-> Match(html, PCTX)]

\* lines 463-492
parseTokens(html) ==
  IF Match(html, AT) = Null THEN [ok |-> FALSE, error |-> AT]
  ELSE IF Match(html, BL) = Null THEN [ok |-> FALSE, error |-> BL]
  ELSE IF Match(html, FSID) = Null THEN [ok |-> FALSE, error |-> FSID]
  ELSE [ok |-> TRUE, at |-> Match(html, AT), bl |-> Match(html, BL),
        fSid |-> Match(html, FSID), pushId |-> Match(html, PUSHID),
        clientPctx |-> Match(html, PCTX)]

\* variant: only a 302 is taken for a redirect
isRedirect302(status) == status = 302

\* line 453
isRedirect(status) == status >= 300 /\ status < 400

\* statuses the root page fetch may answer with
Statuses == {200, 301, 302, 500}

\* the updates the Set-Cookie headers of the root page response parse to; the
\* response may carry a value newer than any the process has seen (MaxVal + 1)
FreshUpdates ==
  {ParseSetCookie(hdrs, 1, EmptyOO) :
     hdrs \in BoundedSeq([name : CookieNames, value : 0..(MaxVal + 1)], MaxHdrs)}

\* ---- concurrent refreshes over a .env file that can be read and written ----
\* the process has booted from a .env file holding both mandatory cookies, so
\* the store and the file agree; every readFile and writeFile resolves
InitPersist ==
  /\ session = NoSession
  /\ store = [n \in Mandatory |-> 1]
  /\ tabs = [t \in TabIds |-> IF t = 0 THEN "blank" ELSE "none"]
  /\ closing = {}
  /\ deadline = {}
  /\ graceTimers = 0
  /\ pc = [r \in StartIds |-> "init"]
  /\ tabOf = [r \in StartIds |-> 0]
  /\ conns = [c \in ConnIds |-> NoConn]
  /\ observed = {}
  /\ unobserved = {}
  /\ lastReply = NoReply
  /\ keyOrder = <<PSID, PSIDTS>>
  /\ booted = TRUE
  /\ envFile = File([n \in Mandatory |-> 1])
  /\ rf = [i \in RefreshIds |-> NoRefresh]
  /\ fnArg = 0
  /\ fnRes = 0
  /\ call = NoCall
  /\ reqs = NoReqs

NextPersist ==
  \/ \E i \in RefreshIds, upd \in FreshUpdates : RefreshStart(i, upd)
  \/ \E i \in RefreshIds : RefreshRead(i, TRUE)
  \/ \E i \in RefreshIds : RefreshWrite(i, "ok")

SpecPersist == InitPersist /\ [][NextPersist]_vars

\* ---- POST /api/generate and POST /api/upscale ----
\* the route's catch: res.status(500).json({ error: message })
Fail(c, e) ==
  [c EXCEPT !.pc = "done", !.status = 500, !.error = e, !.tokens = NoTokens,
            !.cookies = <<>>, !.res = [NoRes EXCEPT !.status = c.res.status]]

Send(step) == reqs' = [reqs EXCEPT ![step] = @ + 1]
SendAtt(step, a) == reqs' = [reqs EXCEPT ![step][a] = @ + 1]

\* variant: the middleware lets every request through
needsRestoreNever(o) == FALSE

\* generate.ts line 22
needsRestore(o) == ~hasCookies(o)

\* the route handler past ensureAuth, up to the root page fetch of
\* getSessionTokens (generate.ts lines 35-37 and 101-103, auth.ts 446-451)
Handler(c) ==
  IF ~c.valid
    THEN /\ call' = [NoCall EXCEPT !.pc = "done", !.kind = c.kind, !.status = 400]
         /\ UNCHANGED reqs
    ELSE /\ call' = [c EXCEPT !.pc = "tokens"]
         /\ Send("tokens")

\* a request arrives: ensureAuth (generate.ts lines 21-31), then the handler
Request(kind, valid, natt) ==
  /\ call.pc = "idle"
  /\ kind = "upscale" => natt = 0
  /\ LET c == [call EXCEPT !.kind = kind, !.valid = valid, !.natt = natt]
     IN IF needsRestore(store)
          THEN /\ call' = [c EXCEPT !.pc = "restoring"]
               /\ UNCHANGED reqs
          ELSE Handler(c)
  /\ UNCHANGED <<store, storeVars, loginVars, fnVars>>

\* tryRestoreSession resolves (auth.ts lines 162-250): false, or true after
\* setCookies(capturedCookies) with both mandatory cookies captured
RestoreDone(restored, obj) ==
  /\ call.pc = "restoring"
  /\ IF restored
       THEN /\ store' = setCookiesOrdered(StoreObj, obj).val
            /\ keyOrder' = setCookiesOrdered(StoreObj, obj).keys
            /\ Handler(call)
       ELSE /\ call' = [NoCall EXCEPT !.pc = "done", !.kind = call.kind,
                                      !.status = 401, !.error = "auth"]
            /\ UNCHANGED <<store, keyOrder, reqs>>
  /\ UNCHANGED <<booted, envFile, rf, loginVars, fnVars>>

\* the root page fetch resolves (auth.ts lines 453-459): a 3xx throws, any
\* other status goes on to refreshCookiesFromResponse, upd being the updates
\* its Set-Cookie headers parse to
TokensResponse(status, upd) ==
  /\ call.pc = "tokens"
  /\ IF isRedirect(status)
       THEN /\ call' = Fail([call EXCEPT !.res = [status |-> status, updates |-> EmptyOO]],
                            "redirect")
            /\ UNCHANGED <<store, keyOrder, rf>>
       ELSE /\ call' = [call EXCEPT !.pc = "refresh",
                                    !.res = [status |-> status, updates |-> upd]]
            /\ refreshStart(1, upd)
  /\ UNCHANGED <<booted, envFile, reqs, loginVars, fnVars>>

\* generateImages lines 953-962 and 964-1000: the next attachment's upload is
\* started, or with none left the StreamGenerate request is sent
NextUpload(c) ==
  IF c.att < c.natt
    THEN /\ call' = [c EXCEPT !.pc = "uploadInit", !.att = c.att + 1]
         /\ SendAtt("init", c.att + 1)
    ELSE /\ call' = [c EXCEPT !.pc = "generate"]
         /\ Send("gen")

\* refreshCookiesFromResponse has resolved; the body is read and parsed
\* (auth.ts lines 461-492); on success the caller goes on: generateImages
\* lines 946-962, or requestFullSizeUrl for an upscale (generate.ts 107-120)
TokensParse(html) ==
  /\ call.pc = "refresh"
  /\ rf[1].pc = "done"
  /\ LET t == parseTokens(html)
         c == [call EXCEPT !.tokens = t]
     IN IF ~t.ok
          THEN /\ call' = Fail(c, t.error)
               /\ UNCHANGED reqs
          ELSE IF call.kind = "generate"
                 THEN NextUpload([c EXCEPT !.cookies = getCookieString(StoreObj)])
                 ELSE /\ call' = [c EXCEPT !.pc = "rpc", !.cookies = getCookieString(StoreObj)]
                      /\ Send("rpc")
  /\ rf' = [rf EXCEPT ![1] = NoRefresh]
  /\ UNCHANGED <<store, keyOrder, booted, envFile, loginVars, fnVars>>

\* variant: the finalize request is sent whatever the init phase answered
initAcceptedAlways(out) == TRUE

\* uploadImageBuffer lines 543-553
initAccepted(out) == out = "ok"

\* the init request of an upload settles (uploadImageBuffer lines 537-555): ok
\* with the upload URL header, ok without it, a non-2xx status, or a rejected
\* fetch
UploadInitResponse(out) ==
  /\ call.pc = "uploadInit"
  /\ IF initAccepted(out)
       THEN /\ call' = [call EXCEPT !.pc = "uploadFin", !.tokens = NoTokens,
                                    !.res = NoRes, !.initRes = out]
            /\ SendAtt("fin", call.att)
       ELSE /\ call' = Fail([call EXCEPT !.res = NoRes, !.initRes = out], "init")
            /\ UNCHANGED reqs
  /\ UNCHANGED <<store, storeVars, loginVars, fnVars>>

\* the finalize request settles (uploadImageBuffer lines 556-578)
UploadFinResponse(ok) ==
  /\ call.pc = "uploadFin"
  /\ IF ok
       THEN NextUpload([call EXCEPT !.initRes = "none"])
       ELSE /\ call' = Fail(call, "finalize")
            /\ UNCHANGED reqs
  /\ UNCHANGED <<store, storeVars, loginVars, fnVars>>

\* variant: an empty image list is returned like any other
noImagesNever(n) == FALSE

\* generateImages line 1017: parsed.images.length === 0
noImages(n) == n = 0

\* StreamGenerate settles (generateImages lines 1002-1023, generate.ts 56-88):
\* n images found, p of them png; each png is then downloaded in turn
GenerateResponse(ok, n, p) ==
  /\ call.pc = "generate"
  /\ p <= n
  /\ ~ok => n = 0
  /\ LET c == [call EXCEPT !.tokens = NoTokens, !.cookies = <<>>, !.res = NoRes,
                           !.genRes = IF ok THEN "ok" ELSE "http", !.nimages = n]
     IN IF ~ok THEN call' = Fail(c, "generate") /\ UNCHANGED reqs
        ELSE IF noImages(n) THEN call' = Fail(c, "noimages") /\ UNCHANGED reqs
        ELSE IF p = 0 THEN call' = [c EXCEPT !.pc = "done", !.status = 200] /\ UNCHANGED reqs
        ELSE /\ call' = [c EXCEPT !.pc = "download", !.npng = p, !.img = 1]
             /\ Send("dl")
  /\ UNCHANGED <<store, storeVars, loginVars, fnVars>>

\* the c8o8Fe request of an upscale settles (requestFullSizeUrl, generate.ts 122)
RpcResponse(ok) ==
  /\ call.pc = "rpc"
  /\ LET c == [call EXCEPT !.tokens = NoTokens, !.cookies = <<>>, !.res = NoRes]
     IN IF ok
          THEN /\ call' = [c EXCEPT !.pc = "download", !.npng = 1, !.img = 1]
               /\ Send("dl")
          ELSE /\ call' = Fail(c, "rpc")
               /\ UNCHANGED reqs
  /\ UNCHANGED <<store, storeVars, loginVars, fnVars>>

\* variant: a failed download fails the request in both routes
downloadFatalAlways(kind, ok) == ~ok

\* generate.ts lines 60-77 catch the error of one download, lines 122-135 do not
downloadFatal(kind, ok) == kind = "upscale" /\ ~ok

\* a download settles: in /generate a failed one is logged and skipped
\* (generate.ts lines 60-77), in /upscale it fails the request (122-135)
DownloadResponse(ok) ==
  /\ call.pc = "download"
  /\ LET c == [call EXCEPT !.saved = IF ok THEN @ + 1 ELSE @]
     IN IF downloadFatal(call.kind, ok)
          THEN call' = Fail(c, "download") /\ UNCHANGED reqs
          ELSE IF call.img < call.npng
                 THEN /\ call' = [c EXCEPT !.img = @ + 1]
                      /\ Send("dl")
                 ELSE /\ call' = [c EXCEPT !.pc = "done", !.status = 200]
                      /\ UNCHANGED reqs
  /\ UNCHANGED <<store, storeVars, loginVars, fnVars>>

\* the process has started from the two cookie variables of its environment;
\* the .env file is missing or empty
InitCall ==
  /\ session = NoSession
  /\ tabs = [t \in TabIds |-> IF t = 0 THEN "blank" ELSE "none"]
  /\ closing = {}
  /\ deadline = {}
  /\ graceTimers = 0
  /\ pc = [r \in StartIds |-> "init"]
  /\ tabOf = [r \in StartIds |-> 0]
  /\ conns = [c \in ConnIds |-> NoConn]
  /\ observed = {}
  /\ unobserved = {}
  /\ lastReply = NoReply
  /\ booted = TRUE
  /\ envFile \in {NoFile, File(EmptyObj)}
  /\ rf = [i \in RefreshIds |-> NoRefresh]
  /\ \E p \in 0..MaxVal, t \in 0..MaxVal :
       LET o == loadFromEnv(EmptyOO, [GOOGLE_COOKIES |-> <<>>, psid |-> p, psidts |-> t])
       IN store = o.val /\ keyOrder = o.keys
  /\ fnArg = 0
  /\ fnRes = 0
  /\ call = NoCall
  /\ reqs = NoReqs

NextCall ==
  \/ \E kind \in {"generate", "upscale"}, valid \in BOOLEAN, natt \in 0..MaxAtt :
       Request(kind, valid, natt)
  \/ \E obj \in CaptureMaps : RestoreDone(TRUE, obj)
  \/ RestoreDone(FALSE, EmptyOO)
  \/ \E status \in Statuses, upd \in FreshUpdates : TokensResponse(status, upd)
  \/ \E ok \in BOOLEAN : RefreshRead(1, ok)
  \/ \E out \in {"ok", "failed", "truncated"} : RefreshWrite(1, out)
  \/ \E html \in Pages : TokensParse(html)
  \/ \E out \in {"ok", "nourl", "http", "net"} : UploadInitResponse(out)
  \/ \E ok \in BOOLEAN : UploadFinResponse(ok)
  \/ \E ok \in BOOLEAN, n \in 0..MaxImgs, p \in 0..MaxImgs : GenerateResponse(ok, n, p)
  \/ \E ok \in BOOLEAN : RpcResponse(ok)
  \/ \E ok \in BOOLEAN : DownloadResponse(ok)

SpecCall == InitCall /\ [][NextCall]_vars

\* getSessionTokens as a function of the root page response: its status and
\* its body (auth.ts lines 453-492)
extractTokens(status, html) ==
  IF isRedirect(status) THEN [ok |-> FALSE, error |-> "redirect"] ELSE parseTokens(html)

Pending == [ok |-> FALSE, error |-> "pending"]

InitExtract ==
  /\ session = NoSession
  /\ store = EmptyObj
  /\ tabs = [t \in TabIds |-> IF t = 0 THEN "blank" ELSE "none"]
  /\ closing = {}
  /\ deadline = {}
  /\ graceTimers = 0
  /\ pc = [r \in StartIds |-> "init"]
  /\ tabOf = [r \in StartIds |-> 0]
  /\ conns = [c \in ConnIds |-> NoConn]
  /\ observed = {}
  /\ unobserved = {}
  /\ lastReply = NoReply
  /\ keyOrder = <<>>
  /\ booted = TRUE
  /\ envFile = NoFile
  /\ rf = [i \in RefreshIds |-> NoRefresh]
  /\ fnArg \in [status : Statuses, html : Pages]
  /\ fnRes = Pending
  /\ call = NoCall
  /\ reqs = NoReqs

Extract ==
  /\ fnRes = Pending
  /\ fnRes' = extractTokens(fnArg.status, fnArg.html)
  /\ UNCHANGED <<store, storeVars, loginVars, fnArg, callVars>>

NextExtract == Extract

SpecExtract == InitExtract /\ [][NextExtract]_vars

\* ---- decoding a streamed response: parseStreamResponse (lib/auth.ts) ----
\* The function is three nested loops, over the lines, over the candidates
\* inner[4] of a content line and over the image groups of a candidate; one
\* action is one iteration, its input the element the iteration looks at.
\* fnRes is the decoder: the loop it is in and the result built so far;
\* fnArg is the element last looked at.

\* a variant of an image group, group[0][3] or group[0][6]: falsy, or an array
\* with its url at [3] (0 is "" or missing) and its image token at [5] (0 is
\* not a string)
NoVariant == [url |-> Null, tok |-> 0]
Variants == {NoVariant} \cup [url : 0..MaxUrl, tok : {0, 1}]

\* an element of the group list: not an array of arrays, or its two variants
BadGroup == [ok |-> FALSE, v3 |-> NoVariant, v6 |-> NoVariant]
Groups == {BadGroup} \cup [ok : {TRUE}, v3 : Variants, v6 : Variants]

\* an element of inner[4]: not an array or without [12], or its id at [0]
\* (Null when no "rc_" string) and whether [12][7][0] and [12][0]["8"][0]
\* are arrays
BadCand == [ok |-> FALSE, chunk |-> Null, plain |-> FALSE, edit |-> FALSE]
Cands == {BadCand} \cup [ok : {TRUE}, chunk : {Null, 1}, plain : BOOLEAN, edit : BOOLEAN]

\* a non-blank line: one that is skipped (digits only, not JSON, a "di", "e"
\* or "af.httprm" envelope, not a "wrb.fr" envelope, no inner string, inner
\* string not JSON), or a content line: whether inner[1] is an array of two or
\* more with its first two elements (0 is null or ""), inner[42] (0 is not a
\* non-empty string), whether inner[4] is an array
SkipKinds == {"digits", "notjson", "othertag", "notwrb", "noinner", "badinner"}
SkippedLine(k) == [kind |-> k, ids |-> FALSE, conv |-> 0, resp |-> 0, model |-> 0, cands |-> FALSE]
Lines ==
  {SkippedLine(k) : k \in SkipKinds}
    \cup [kind : {"content"}, ids : {FALSE}, conv : {0}, resp : {0}, model : {0, 1},
          cands : BOOLEAN]
    \cup [kind : {"content"}, ids : {TRUE}, conv : 0..MaxId, resp : 0..MaxId,
          model : {0, 1}, cands : BOOLEAN]

NoInput == [kind |-> "none"]

NoDecoder ==
  [pos |-> "lines", chunk |-> Null, edit |-> FALSE, images |-> <<>>,
   conversationId |-> Null, responseId |-> Null, modelName |-> Null]

\* lines 666-667: conversationId = inner[1][0] || conversationId
OrElse(new, old) == IF new # 0 THEN new ELSE old

\* images.find((img) => img.url === url), line 735
Found(images, url) == \E k \in 1..Len(images) : images[k].url = url

\* variant: every variant with a url is pushed
pushVariantAlways(images, v, chunk) ==
  IF v = NoVariant \/ v.url = 0 THEN images
  ELSE Append(images, [url |-> v.url, imageToken |-> IF v.tok # 0 THEN v.tok ELSE Null,
                       responseChunkId |-> chunk])

\* lines 725-746: one variant of the filtered pair
pushVariant(images, v, chunk) ==
  IF v = NoVariant \/ v.url = 0 \/ Found(images, v.url) THEN images
  ELSE Append(images, [url |-> v.url, imageToken |-> IF v.tok # 0 THEN v.tok ELSE Null,
                       responseChunkId |-> chunk])

\* lines 719-747: one group
pushGroup(images, g, chunk) ==
  IF ~g.ok THEN images
  ELSE pushVariant(pushVariant(images, g.v3, chunk), g.v6, chunk)

DecodeInit ==
  /\ session = NoSession
  /\ store = EmptyObj
  /\ tabs = [t \in TabIds |-> IF t = 0 THEN "blank" ELSE "none"]
  /\ closing = {}
  /\ deadline = {}
  /\ graceTimers = 0
  /\ pc = [r \in StartIds |-> "init"]
  /\ tabOf = [r \in StartIds |-> 0]
  /\ conns = [c \in ConnIds |-> NoConn]
  /\ observed = {}
  /\ unobserved = {}
  /\ lastReply = NoReply
  /\ keyOrder = <<>>
  /\ booted = TRUE
  /\ envFile = NoFile
  /\ rf = [i \in RefreshIds |-> NoRefresh]
  /\ fnArg = NoInput
  /\ fnRes = NoDecoder
  /\ call = NoCall
  /\ reqs = NoReqs

decodeUnchanged == UNCHANGED <<store, storeVars, loginVars, callVars>>

\* lines 635-697: one iteration of the loop over the lines
DecodeLine(line) ==
  /\ fnRes.pos = "lines"
  /\ fnArg' = line
  /\ fnRes' =
       IF line.kind # "content" THEN fnRes
       ELSE [fnRes EXCEPT
               !.conversationId = IF line.ids THEN OrElse(line.conv, @) ELSE @,
               !.responseId = IF line.ids THEN OrElse(line.resp, @) ELSE @,
               !.modelName = IF line.model # 0 THEN line.model ELSE @,
               !.pos = IF line.cands THEN "cands" ELSE "lines"]
  /\ decodeUnchanged

\* where the loops go after the plain groups, or the edit groups, of a candidate
AfterPlain(d) == [d EXCEPT !.pos = IF d.edit THEN "edit" ELSE "cands", !.edit = FALSE]

\* lines 699-717: one iteration of the loop over inner[4]
DecodeCandidate(cand) ==
  /\ fnRes.pos = "cands"
  /\ fnArg' = [kind |-> "cand", cand |-> cand]
  /\ fnRes' =
       IF ~cand.ok THEN fnRes
       ELSE IF cand.plain
              THEN [fnRes EXCEPT !.pos = "plain", !.chunk = cand.chunk, !.edit = cand.edit]
              ELSE AfterPlain([fnRes EXCEPT !.chunk = cand.chunk, !.edit = cand.edit])
  /\ decodeUnchanged

\* inner[4] has no further element
EndCandidates ==
  /\ fnRes.pos = "cands"
  /\ fnArg' = NoInput
  /\ fnRes' = [fnRes EXCEPT !.pos = "lines", !.chunk = Null]
  /\ decodeUnchanged

\* lines 719-747: one iteration of the loop over allImageGroups, which holds
\* the plain groups first and the edit groups after them
DecodeGroup(g) ==
  /\ fnRes.pos \in {"plain", "edit"}
  /\ fnArg' = [kind |-> "group", group |-> g]
  /\ fnRes' = [fnRes EXCEPT !.images = pushGroup(@, g, fnRes.chunk)]
  /\ decodeUnchanged

\* the plain groups, or the edit groups, have no further element
EndGroups ==
  /\ fnRes.pos \in {"plain", "edit"}
  /\ fnArg' = NoInput
  /\ fnRes' = IF fnRes.pos = "plain" THEN AfterPlain(fnRes)
              ELSE [fnRes EXCEPT !.pos = "cands"]
  /\ decodeUnchanged

\* line 751: no further line
DecodeReturn ==
  /\ fnRes.pos = "lines"
  /\ fnArg' = NoInput
  /\ fnRes' = [fnRes EXCEPT !.pos = "returned"]
  /\ decodeUnchanged

\* The ids and the model name on one side and the image list on the other are
\* built independently of each other (lines 665-671 and 697-749), so they are
\* explored apart: responses whose content lines carry candidates but no ids,
\* and responses whose content lines carry ids but no candidates.
ImageLines == {l \in Lines : ~l.ids /\ l.model = 0}
IdLines == {l \in Lines : ~l.cands}

NextDecodeImages ==
  \/ \E line \in ImageLines : DecodeLine(line)
  \/ \E cand \in Cands : DecodeCandidate(cand)
  \/ EndCandidates
  \/ \E g \in Groups : DecodeGroup(g)
  \/ EndGroups
  \/ DecodeReturn

SpecDecodeImages == DecodeInit /\ [][NextDecodeImages]_vars

NextDecodeIds ==
  \/ \E line \in IdLines : DecodeLine(line)
  \/ DecodeReturn

SpecDecodeIds == DecodeInit /\ [][NextDecodeIds]_vars

\* ---- one image fetch: downloadImageToBuffer (lib/auth.ts lines 775-821) ----
\* fnRes is the fetch: where it is, the Cookie value of its headers object,
\* the loop counter i (the redirects followed so far) and how many of them
\* were soft, the requests issued, the last request's Cookie header, its
\* outcome.  fnArg is the response last received; the request in flight goes
\* to the host it named.  The headers object also holds the
\* constant Referer and User-Agent; the same object goes into every fetch.

\* what a hop answers: a 3xx with or without Location (to the same or another
\* host), another non-2xx status, a 2xx text/plain body that is or is not an
\* https:// URL, a 2xx with other content (its bytes), or no answer at all
\* (the fetch rejects: network error or the 60 s timeout)
Responses ==
  [kind : {"redirect", "text"}, to : {"none", "same", "other"}, body : {0}]
    \cup [kind : {"error", "rejected"}, to : {"none"}, body : {0}]
    \cup [kind : {"binary"}, to : {"none"}, body : 1..MaxVal]

NoFetch ==
  [pos |-> "idle", cookie |-> <<>>, i |-> 0, soft |-> 0, nreq |-> 0,
   sent |-> <<>>, result |-> "none", bytes |-> 0]

\* variant: the loop has no bound
moreHopsAlways(i) == TRUE

\* line 787: the loop goes round again while i < 8
moreHops(i) == i + 1 < MaxHops

\* variant: a text/plain body is never followed
followsNoSoft(resp) == resp.kind = "redirect" /\ resp.to # "none"

\* lines 791-812: the responses after which the loop says continue
follows(resp) == resp.kind \in {"redirect", "text"} /\ resp.to # "none"

\* variant: the Cookie header is rendered from the store for each hop
hopCookieFromStore(f) == getCookieString(StoreObj)

\* line 788: fetch(currentUrl, { headers, ... }), headers built at lines 776-782
hopCookie(f) == f.cookie

\* lines 776-788: the headers are built and the first request goes out
FetchStart ==
  /\ fnRes.pos = "idle"
  /\ LET f == [fnRes EXCEPT !.cookie = getCookieString(StoreObj)]
     IN fnRes' = [f EXCEPT !.pos = "waiting", !.nreq = 1, !.sent = hopCookie(f)]
  /\ UNCHANGED <<store, storeVars, loginVars, fnArg, callVars>>

\* lines 788-820: a request settles. The loop continues with the next request,
\* or ends: a response that is not ok throws "Failed to download image", a
\* rejected fetch throws, a text/plain body already read by res.text() makes
\* res.arrayBuffer() throw, anything else returns its bytes
FetchResponse(resp) ==
  /\ fnRes.pos = "waiting"
  /\ fnArg' = resp
  /\ fnRes' =
       IF resp.kind = "rejected" THEN [fnRes EXCEPT !.pos = "threw", !.result = "rejected"]
       ELSE IF follows(resp) /\ moreHops(fnRes.i)
         THEN [fnRes EXCEPT !.i = @ + 1, !.soft = IF resp.kind = "text" THEN @ + 1 ELSE @,
                            !.nreq = @ + 1, !.sent = hopCookie(fnRes)]
       ELSE IF resp.kind \in {"redirect", "error"}
         THEN [fnRes EXCEPT !.pos = "threw", !.result = "http"]
       ELSE IF resp.kind = "text"
         THEN [fnRes EXCEPT !.pos = "threw", !.result = "bodyused"]
       ELSE [fnRes EXCEPT !.pos = "returned", !.result = "bytes", !.bytes = resp.body]
  /\ UNCHANGED <<store, storeVars, loginVars, callVars>>

\* cookie maps another request merges into the store meanwhile, some with
\* values newer than any stored (MaxVal + 1)
FreshMaps == {o \in OrderedObjects(Mandatory, 1..(MaxVal + 1)) : o.keys = <<PSID, PSIDTS>>}

InitFetch ==
  /\ session = NoSession
  /\ tabs = [t \in TabIds |-> IF t = 0 THEN "blank" ELSE "none"]
  /\ closing = {}
  /\ deadline = {}
  /\ graceTimers = 0
  /\ pc = [r \in StartIds |-> "init"]
  /\ tabOf = [r \in StartIds |-> 0]
  /\ conns = [c \in ConnIds |-> NoConn]
  /\ observed = {}
  /\ unobserved = {}
  /\ lastReply = NoReply
  /\ booted = TRUE
  /\ envFile = NoFile
  /\ rf = [i \in RefreshIds |-> NoRefresh]
  /\ store = [n \in Mandatory |-> 1]
  /\ keyOrder = <<PSID, PSIDTS>>
  /\ fnArg = NoInput
  /\ fnRes = NoFetch
  /\ call = NoCall
  /\ reqs = NoReqs

NextFetch ==
  \/ FetchStart
  \/ \E resp \in Responses : FetchResponse(resp)
  \/ \E obj \in FreshMaps : SetCookiesCall(obj)

SpecFetch == InitFetch /\ [][NextFetch]_vars

\* ---- decoding the full-size response: requestFullSizeUrl (lines 904-937) ----
\* One action is one iteration of the loop over the lines.  fnRes is the loop:
\* fullSizeUrl so far (Null, 0 for "" or undefined, or a URL) and the outcome;
\* fnArg is the line last looked at.

\* an element of a parsed line: its kind (an array tagged "wrb.fr" for
\* "c8o8Fe", one tagged for another procedure, anything else), whether [2] is
\* a non-empty string, whether that string parses to something indexable, and
\* the first element it parses to
Entries ==
  [kind : {"upscale", "otherproc"}, has : {TRUE}, json : {TRUE}, first : 0..MaxUrl]
    \cup [kind : {"upscale", "otherproc"}, has : BOOLEAN, json : {FALSE}, first : {0}]
    \cup [kind : {"notentry"}, has : {FALSE}, json : {FALSE}, first : {0}]

\* a non-blank line: digits only, not JSON, JSON but no array, or an array
UpscaleLines ==
  [kind : {"digits", "notjson", "notarray"}, entries : {<<>>}]
    \cup [kind : {"array"}, entries : BoundedSeq(Entries, MaxEntries)]

NoUpscale == [pos |-> "lines", fullSizeUrl |-> Null, downloadUrl |-> <<>>, error |-> "none"]

\* variant: the procedure id is not looked at
entryMatchesAnyProc(e) == e.kind \in {"upscale", "otherproc"} /\ e.has

\* line 917
entryMatches(e) == e.kind = "upscale" /\ e.has

\* lines 916-926: the entries of one line from the k-th on; the first matching
\* entry ends the scan, with fullSizeUrl assigned, or unassigned when the
\* payload makes JSON.parse or inner[0] throw
RECURSIVE scanEntries(_, _, _)
scanEntries(es, k, url) ==
  IF k > Len(es) THEN url
  ELSE IF entryMatches(es[k]) THEN (IF es[k].json THEN es[k].first ELSE url)
  ELSE scanEntries(es, k + 1, url)

\* lines 911-937: one iteration; a truthy fullSizeUrl ends the loop and the
\* function returns it with the suffix appended
UpscaleLine(line) ==
  /\ fnRes.pos = "lines"
  /\ fnArg' = line
  /\ LET url == IF line.kind = "array" THEN scanEntries(line.entries, 1, fnRes.fullSizeUrl)
                ELSE fnRes.fullSizeUrl
     IN fnRes' = IF url >= 1
                   THEN [fnRes EXCEPT !.pos = "returned", !.fullSizeUrl = url,
                                      !.downloadUrl = <<url, "=d-I?alr=yes">>]
                   ELSE [fnRes EXCEPT !.fullSizeUrl = url]
  /\ UNCHANGED <<store, storeVars, loginVars, callVars>>

\* lines 929-932: no further line
UpscaleEnd ==
  /\ fnRes.pos = "lines"
  /\ fnArg' = NoInput
  /\ fnRes' = [fnRes EXCEPT !.pos = "threw", !.error = "parse"]
  /\ UNCHANGED <<store, storeVars, loginVars, callVars>>

InitUpscale ==
  /\ session = NoSession
  /\ store = EmptyObj
  /\ tabs = [t \in TabIds |-> IF t = 0 THEN "blank" ELSE "none"]
  /\ closing = {}
  /\ deadline = {}
  /\ graceTimers = 0
  /\ pc = [r \in StartIds |-> "init"]
  /\ tabOf = [r \in StartIds |-> 0]
  /\ conns = [c \in ConnIds |-> NoConn]
  /\ observed = {}
  /\ unobserved = {}
  /\ lastReply = NoReply
  /\ keyOrder = <<>>
  /\ booted = TRUE
  /\ envFile = NoFile
  /\ rf = [i \in RefreshIds |-> NoRefresh]
  /\ fnArg = NoInput
  /\ fnRes = NoUpscale
  /\ call = NoCall
  /\ reqs = NoReqs

NextUpscale ==
  \/ \E line \in UpscaleLines : UpscaleLine(line)
  \/ UpscaleEnd

SpecUpscale == InitUpscale /\ [][NextUpscale]_vars

\* ---- pointer input of an observer: clientWs.on("message"), type "click" ----
\* (routes/remote-login.ts lines 150-156 and 254-272), on relay connection 1.
\* fnArg holds, per click message, its coordinates and how far its chain of
\* commands has come (0 not received, 1 the 30 ms timer is pending, 2 the
\* 50 ms timer is pending, 3 done); fnRes is what the browser has received, in
\* order, each command marked with the click it belongs to.
ClickIds == 1..MaxClicks
Coords == 1..(MaxVal + 1)
NoClick == [stage |-> 0, x |-> 0]
PointerTypes == <<"mouseMoved", "mousePressed", "mouseReleased">>

\* variant: the command is written to the socket whatever its state
cdpCommandUnchecked(sent, open, cmd) == Append(sent, cmd)

\* lines 150-156: the command goes out only on an open debugging socket
cdpCommand(sent, open, cmd) == IF open THEN Append(sent, cmd) ELSE sent

\* the command of click k that leaves stage n
PointerCommand(k, n) == [click |-> k, type |-> PointerTypes[n + 1], x |-> fnArg'[k].x]

PointerStep(k, n) ==
  /\ fnRes' = cdpCommand(fnRes, conns[1].state = "open", PointerCommand(k, n))
  /\ UNCHANGED <<store, storeVars, loginVars, callVars>>

\* lines 254-256: a click message arrives while the observer's socket is up
ClickMessage(k, x) ==
  /\ conns[1].state \in {"connecting", "open"}
  /\ fnArg[k].stage = 0
  /\ \A j \in ClickIds : j < k => fnArg[j].stage # 0       \* numbered in arrival order
  /\ fnArg' = [fnArg EXCEPT ![k] = [stage |-> 1, x |-> x]]
  /\ PointerStep(k, 0)

\* lines 257-263: the 30 ms timer fires; timers of one delay fire in the order
\* they were armed
PressTimer(k) ==
  /\ fnArg[k].stage = 1
  /\ \A j \in ClickIds : j < k => fnArg[j].stage # 1
  /\ fnArg' = [fnArg EXCEPT ![k].stage = 2]
  /\ PointerStep(k, 1)

\* lines 264-271: the 50 ms timer fires
ReleaseTimer(k) ==
  /\ fnArg[k].stage = 2
  /\ \A j \in ClickIds : j < k => fnArg[j].stage \notin {1, 2}
  /\ fnArg' = [fnArg EXCEPT ![k].stage = 3]
  /\ PointerStep(k, 2)

\* a session is running in tab 1 and an observer has just been attached
InitClick ==
  /\ session = [id |-> 1, status |-> "running", tabId |-> 1]
  /\ store = EmptyObj
  /\ tabs = [t \in TabIds |-> IF t = 0 THEN "blank" ELSE IF t = 1 THEN "open" ELSE "none"]
  /\ closing = {}
  /\ deadline = {1}
  /\ graceTimers = 0
  /\ pc = [r \in StartIds |-> IF r = 1 THEN "accepted" ELSE "init"]
  /\ tabOf = [r \in StartIds |-> 0]
  /\ conns = [c \in ConnIds |->
                IF c = 1 THEN [NoConn EXCEPT !.state = "connecting", !.tab = 1, !.sid = 1]
                ELSE NoConn]
  /\ observed = {}
  /\ unobserved = {}
  /\ lastReply = NoReply
  /\ keyOrder = <<>>
  /\ booted = TRUE
  /\ envFile = NoFile
  /\ rf = [i \in RefreshIds |-> NoRefresh]
  /\ fnArg = [k \in ClickIds |-> NoClick]
  /\ fnRes = <<>>
  /\ call = NoCall
  /\ reqs = NoReqs

NextClick ==
  \/ CdpOpen(1)
  \/ CdpError(1)
  \/ ClientClose(1)
  \/ \E k \in ClickIds, x \in Coords : ClickMessage(k, x)
  \/ \E k \in ClickIds : PressTimer(k)
  \/ \E k \in ClickIds : ReleaseTimer(k)

SpecClick == InitClick /\ [][NextClick]_vars

\* ---- keyboard input of an observer, and the session ending under a relay ----
\* lines 273-296: the key events of one keydown message (a key of
\* SPECIAL_KEY_MAP with or without text, or a generic key), and the insertText
\* of a type message
KeyKinds == {"special", "specialText", "generic", "type"}
KeyCommands(kind) ==
  CASE kind = "special"     -> <<"rawKeyDown", "keyUp">>
    [] kind = "specialText" -> <<"rawKeyDown", "char", "keyUp">>
    [] kind = "generic"     -> <<"keyDown", "keyUp">>
    [] OTHER                -> <<"insertText">>

RECURSIVE cdpCommands(_, _, _)
cdpCommands(sent, open, types) ==
  IF types = <<>> THEN sent
  ELSE cdpCommands(cdpCommand(sent, open, [click |-> 0, type |-> Head(types), x |-> 0]),
                   open, Tail(types))

\* lines 273-299: a keydown or type message arrives on the observer's socket
KeyMessage(kind) ==
  /\ conns[1].state \in {"connecting", "open"}
  /\ Len(fnRes) < MaxClicks
  /\ fnRes' = cdpCommands(fnRes, conns[1].state = "open", KeyCommands(kind))
  /\ UNCHANGED <<store, storeVars, loginVars, callVars, fnArg>>

NextInput ==
  \/ NextClick
  \/ \E kind \in KeyKinds : KeyMessage(kind)
  \/ StopRequest
  \/ DeadlineFire(1)
  \/ GraceFire
  \/ \E t \in TabIds, ok \in BOOLEAN : AsyncCloseTab(t, ok)
  \/ CdpClosed(1)
  \/ \E upd \in ParsedEvents : BrowserNetwork(1, upd)

SpecInput == InitClick /\ [][NextInput]_vars

\* ---- ensureChromium (lib/auth.ts lines 261-333) ----
\* fnArg is, per call, where it stands: "idle" not made yet, "probing" awaiting
\* the /json/version request of line 292, "importing" inside the start at its
\* first await (line 300), "polling" in waitForCdp (line 326), "waiting" on
\* the promise `starting` of the call `on`, "done" returned, "failed" threw.
\* fnRes is the module state and the processes: chromiumProc (0 is null, a
\* process is named after the call that spawned it), starting (0 is null, else
\* the call whose promise it is), the processes running, those whose endpoint
\* answers, those whose .killed flag is set, and those that died with their
\* "exit" event not delivered yet.
CallIds == 1..MaxCalls
NoChromium ==
  [chromiumProc |-> 0, starting |-> 0, live |-> {}, up |-> {}, killed |-> {},
   exiting |-> {}]
NoEnsure == [pc |-> "idle", on |-> 0]

\* GET /json/version on port 9222 is answered
Answers(g) == g.live \cap g.up # {}

\* lines 296-297 and 298-331 up to the first await of the start
enterStart(k, g) ==
  IF g.starting # 0
    THEN /\ fnArg' = [fnArg EXCEPT ![k] = [pc |-> "waiting", on |-> g.starting]]
         /\ fnRes' = g
    ELSE /\ fnArg' = [fnArg EXCEPT ![k] = [pc |-> "importing", on |-> 0]]
         /\ fnRes' = [g EXCEPT !.starting = k]

\* lines 291-292: the call is made
EnsureCall(k) ==
  /\ fnArg[k].pc = "idle"
  /\ \A j \in CallIds : j < k => fnArg[j].pc # "idle"      \* numbered in call order
  /\ IF fnRes.chromiumProc # 0 /\ fnRes.chromiumProc \notin fnRes.killed
       THEN /\ fnArg' = [fnArg EXCEPT ![k].pc = "probing"]
            /\ fnRes' = fnRes
       ELSE enterStart(k, fnRes)
  /\ UNCHANGED <<store, storeVars, loginVars, callVars>>

\* lines 292-297: the probe settles; answered, the call returns; otherwise
\* chromiumProc.kill("SIGKILL") on whatever chromiumProc is now (a TypeError
\* when it became null meanwhile), chromiumProc = null, then the start
ProbeSettles(k) ==
  /\ fnArg[k].pc = "probing"
  /\ IF Answers(fnRes)
       THEN /\ fnArg' = [fnArg EXCEPT ![k].pc = "done"]
            /\ fnRes' = fnRes
       ELSE IF fnRes.chromiumProc = 0
         THEN /\ fnArg' = [fnArg EXCEPT ![k].pc = "failed"]
              /\ fnRes' = fnRes
         ELSE enterStart(k, [fnRes EXCEPT
                               !.chromiumProc = 0,
                               !.killed = @ \cup {fnRes.chromiumProc},
                               !.live = @ \ {fnRes.chromiumProc},
                               !.exiting = @ \cup ({fnRes.chromiumProc} \cap fnRes.live)])
  /\ UNCHANGED <<store, storeVars, loginVars, callVars>>

\* lines 300-324: the import resolves, the lock files are removed, the browser
\* is spawned and its handlers attached
Spawn(k) ==
  /\ fnArg[k].pc = "importing"
  /\ fnArg' = [fnArg EXCEPT ![k].pc = "polling"]
  /\ fnRes' = [fnRes EXCEPT !.chromiumProc = k, !.live = @ \cup {k}]
  /\ UNCHANGED <<store, storeVars, loginVars, callVars>>

\* the browser p starts answering on its debugging port
EndpointUp(p) ==
  /\ p \in fnRes.live \ fnRes.up
  /\ fnRes' = [fnRes EXCEPT !.up = @ \cup {p}]
  /\ UNCHANGED <<store, storeVars, loginVars, callVars, fnArg>>

\* lines 320-323: the "exit" event of a process that was killed
ExitEvent(p) ==
  /\ p \in fnRes.exiting
  /\ fnRes' = [fnRes EXCEPT !.exiting = @ \ {p}, !.chromiumProc = 0]
  /\ UNCHANGED <<store, storeVars, loginVars, callVars, fnArg>>

\* lines 326-331 and 282-289: waitForCdp returns once the endpoint answers, or
\* throws after 15 s without an answer; the finally clears `starting`
PollSettles(k, ok) ==
  /\ fnArg[k].pc = "polling"
  /\ ok <=> Answers(fnRes)
  /\ fnArg' = [fnArg EXCEPT ![k].pc = IF ok THEN "done" ELSE "failed"]
  /\ fnRes' = [fnRes EXCEPT !.starting = 0]
  /\ UNCHANGED <<store, storeVars, loginVars, callVars>>

\* line 297: `await starting; return` once that promise has settled
WaitSettles(k) ==
  /\ fnArg[k].pc = "waiting"
  /\ fnArg[fnArg[k].on].pc \in {"done", "failed"}
  /\ fnArg' = [fnArg EXCEPT ![k].pc = fnArg[fnArg[k].on].pc]
  /\ UNCHANGED <<store, storeVars, loginVars, callVars, fnRes>>

InitChromium ==
  /\ session = NoSession
  /\ store = EmptyObj
  /\ tabs = [t \in TabIds |-> IF t = 0 THEN "blank" ELSE "none"]
  /\ closing = {}
  /\ deadline = {}
  /\ graceTimers = 0
  /\ pc = [r \in StartIds |-> "init"]
  /\ tabOf = [r \in StartIds |-> 0]
  /\ conns = [c \in ConnIds |-> NoConn]
  /\ observed = {}
  /\ unobserved = {}
  /\ lastReply = NoReply
  /\ keyOrder = <<>>
  /\ booted = TRUE
  /\ envFile = NoFile
  /\ rf = [i \in RefreshIds |-> NoRefresh]
  /\ fnArg = [k \in CallIds |-> NoEnsure]
  /\ fnRes = NoChromium
  /\ call = NoCall
  /\ reqs = NoReqs

NextChromium ==
  \/ \E k \in CallIds : EnsureCall(k)
  \/ \E k \in CallIds : ProbeSettles(k)
  \/ \E k \in CallIds : Spawn(k)
  \/ \E p \in CallIds : EndpointUp(p)
  \/ \E p \in CallIds : ExitEvent(p)
  \/ \E k \in CallIds, ok \in BOOLEAN : PollSettles(k, ok)
  \/ \E k \in CallIds : WaitSettles(k)

SpecChromium == InitChromium /\ [][NextChromium]_vars

\* ---- local login: GET /api/login (routes/auth.ts) and loginFlow (lib/auth.ts) ----
\* fnRes is the module variable loginInProgress; fnArg is, per request, where
\* it stands ("idle" not made yet, "polling" in loginFlow up to and in its wait
\* loop, "closing" past the loop at cdp.detach() / browser.close(), "done"
\* answered 200, "failed" answered 500, "rejected" answered 409), and while
\* its flow executes the capture map, loggedIn and how the loop was left; then
\* the error thrown.
\* The key order of the store is not read here and is left alone.
LoginIds == 1..MaxLogins
NoLogin ==
  [pc |-> "idle", captured |-> EmptyObj, loggedIn |-> FALSE, left |-> "none",
   error |-> "none"]
PageStates == {"login", "gemini", "navigating"}

\* variant: the flag is not consulted
loginRejectsNever(inProgress) == FALSE

\* routes/auth.ts lines 10-12
loginRejects(inProgress) == inProgress

\* routes/auth.ts lines 9-15: the 409 check and the flag, then loginFlow starts
LoginRequest(k) ==
  /\ fnArg[k].pc = "idle"
  /\ \A j \in LoginIds : j < k => fnArg[j].pc # "idle"     \* numbered in arrival order
  /\ IF loginRejects(fnRes)
       THEN /\ fnArg' = [fnArg EXCEPT ![k].pc = "rejected"]
            /\ fnRes' = fnRes
       ELSE /\ fnArg' = [fnArg EXCEPT ![k].pc = "polling"]
            /\ fnRes' = TRUE
  /\ UNCHANGED <<store, storeVars, loginVars, callVars>>

\* lib/auth.ts lines 53-94: a network event reaches the flow's capture
\* handlers, which stay attached until cdp.detach() has completed; upd is
\* what the handlers keep of it (as in the relay, ParseCookies)
LoginCapture(k, upd) ==
  /\ fnArg[k].pc \in {"polling", "closing"}
  /\ fnArg' = [fnArg EXCEPT ![k].captured = ObjectAssign(@, upd)]
  /\ UNCHANGED <<store, storeVars, loginVars, callVars, fnRes>>

\* lines 107-139: one round of the wait loop with the page in state page
\* ("gemini": on gemini.google.com with "SNlM0e" in its content)
LoginPoll(k, page) ==
  /\ fnArg[k].pc = "polling"
  /\ fnArg' =
       IF hasCookies(fnArg[k].captured)
         THEN [fnArg EXCEPT ![k].pc = "closing", ![k].loggedIn = TRUE, ![k].left = "both"]
       ELSE IF page = "gemini"
               /\ (Truthy(fnArg[k].captured, PSID) \/ Truthy(fnArg[k].captured, PSIDTS))
         THEN [fnArg EXCEPT ![k].pc = "closing", ![k].loggedIn = TRUE, ![k].left = "page"]
       ELSE fnArg
  /\ UNCHANGED <<store, storeVars, loginVars, callVars, fnRes>>

\* line 112: five minutes have passed when the loop condition is evaluated
LoginDeadline(k) ==
  /\ fnArg[k].pc = "polling"
  /\ fnArg' = [fnArg EXCEPT ![k].pc = "closing", ![k].left = "timeout"]
  /\ UNCHANGED <<store, storeVars, loginVars, callVars, fnRes>>

\* puppeteer.launch, newPage or page.goto rejects (lines 30-105); the route's
\* catch answers 500 and its finally clears the flag (routes/auth.ts 17-23)
LoginThrows(k) ==
  /\ fnArg[k].pc = "polling"
  /\ fnArg' = [fnArg EXCEPT ![k] = [NoLogin EXCEPT !.pc = "failed", !.error = "browser"]]
  /\ fnRes' = FALSE
  /\ UNCHANGED <<store, storeVars, loginVars, callVars>>

\* lines 141-159 and routes/auth.ts 16-23: the browser is closed, the final
\* test throws or setCookies(capturedCookies) runs, the route answers and its
\* finally clears the flag
LoginEnd(k) ==
  /\ fnArg[k].pc = "closing"
  /\ IF ~hasCookies(fnArg[k].captured)
       THEN /\ fnArg' = [fnArg EXCEPT ![k] =
                           [NoLogin EXCEPT !.pc = "failed",
                              !.error = IF fnArg[k].loggedIn THEN "notcaptured" ELSE "timeout"]]
            /\ store' = store
       ELSE /\ fnArg' = [fnArg EXCEPT ![k] = [NoLogin EXCEPT !.pc = "done"]]
            /\ store' = setCookies(store, fnArg[k].captured)
  /\ fnRes' = FALSE
  /\ UNCHANGED <<storeVars, loginVars, callVars>>

InitLogin ==
  /\ session = NoSession
  /\ store \in {EmptyObj, [n \in Mandatory |-> 1]}
  /\ tabs = [t \in TabIds |-> IF t = 0 THEN "blank" ELSE "none"]
  /\ closing = {}
  /\ deadline = {}
  /\ graceTimers = 0
  /\ pc = [r \in StartIds |-> "init"]
  /\ tabOf = [r \in StartIds |-> 0]
  /\ conns = [c \in ConnIds |-> NoConn]
  /\ observed = {}
  /\ unobserved = {}
  /\ lastReply = NoReply
  /\ keyOrder = <<>>
  /\ booted = TRUE
  /\ envFile = NoFile
  /\ rf = [i \in RefreshIds |-> NoRefresh]
  /\ fnArg = [k \in LoginIds |-> NoLogin]
  /\ fnRes = FALSE
  /\ call = NoCall
  /\ reqs = NoReqs

NextLogin ==
  \/ \E k \in LoginIds : LoginRequest(k)
  \/ \E k \in LoginIds, upd \in ParsedEvents : LoginCapture(k, upd)
  \/ \E k \in LoginIds, page \in PageStates : LoginPoll(k, page)
  \/ \E k \in LoginIds : LoginDeadline(k)
  \/ \E k \in LoginIds : LoginThrows(k)
  \/ \E k \in LoginIds : LoginEnd(k)

SpecLogin == InitLogin /\ [][NextLogin]_vars

\* ---- a start request in flight ----
\* POST /remote-login/start (lines 78-88) has passed its 409 check and its
\* closeSession() on an idle manager and awaits createLoginScreencast; no
\* further start request is made, everything else goes on as in Spec.
InitStop ==
  /\ session = NoSession
  /\ store = EmptyObj
  /\ tabs = [t \in TabIds |-> IF t = 0 THEN "blank" ELSE "none"]
  /\ closing = {}
  /\ deadline = {}
  /\ graceTimers = 0
  /\ pc = [r \in StartIds |-> IF r = 1 THEN "creating" ELSE "init"]
  /\ tabOf = [r \in StartIds |-> 0]
  /\ conns = [c \in ConnIds |-> NoConn]
  /\ observed = {}
  /\ unobserved = {}
  /\ lastReply = NoReply
  /\ keyOrder = <<>>
  /\ booted = TRUE
  /\ envFile = NoFile
  /\ rf = [i \in RefreshIds |-> NoRefresh]
  /\ fnArg = 0
  /\ fnRes = 0
  /\ call = NoCall
  /\ reqs = NoReqs

NextStop ==
  \/ \E o \in {"new", "fallback", "notab", "fail"}, S \in SUBSET TabIds,
        t \in TabIds, navOk \in BOOLEAN : createLoginScreencast(1, o, S, t, navOk)
  \/ StartFinish(1)
  \/ DeadlineFire(1)
  \/ GraceFire
  \/ StopRequest
  \/ \E t \in TabIds, ok \in BOOLEAN : AsyncCloseTab(t, ok)
  \/ \E c \in ConnIds : WsConnect(c)
  \/ \E c \in ConnIds : CdpOpen(c)
  \/ \E c \in ConnIds : CdpError(c)
  \/ \E c \in ConnIds : ClientClose(c)
  \/ \E c \in ConnIds : CdpClosed(c)
  \/ \E t \in TabIds, upd \in ParsedEvents : BrowserNetwork(t, upd)

SpecStop == InitStop /\ [][NextStop]_vars

\* ---------------------------------------------------------------------------
\* Properties of the remote-login session manager
\* ---------------------------------------------------------------------------

\* C1: mutual exclusion of start requests: a start request is accepted (its
\* session record installed) only when no session is running at that moment,
\* so two accepted starts never overlap.
C1Claim ==
  [][\A r \in StartIds :
       (pc[r] = "finish" /\ pc'[r] = "accepted") => ~Running]_vars

\* C2: a start request processed while a session is running is answered 409
\* and leaves the session record, the browser tabs and the timers as they were.
C2Thm ==
  [][\A r \in StartIds :
       (pc[r] = "init" /\ pc'[r] # "init" /\ Running)
         => /\ pc'[r] = "rejected"
            /\ lastReply' = Reply("start", 409)
            /\ session' = session
            /\ tabs' = tabs
            /\ closing' = closing
            /\ deadline' = deadline
            /\ graceTimers' = graceTimers]_vars

C2Witness ==
  \E r \in StartIds :
    /\ pc[r] = "rejected"
    /\ lastReply = Reply("start", 409)
    /\ Running
    /\ session.id \in deadline

\* C3: for one session record the success transition is performed at most
\* once: while the record already has status success, no step merges into the
\* store again or arms another grace timer for it.
C3Claim ==
  [][(session # NoSession /\ session.status = "success"
        /\ session' # NoSession /\ session'.id = session.id)
       => graceTimers' <= graceTimers /\ store' = store]_vars

\* C4: whenever the status is success the store holds both mandatory cookies
\* and a grace teardown is still pending; the step that merges captured
\* cookies into the store of a succeeding session leaves the store with the
\* values of a listening relay's capture map, and the step that reaches
\* success closes no tab and keeps the session record.
C4State ==
  StatusOp = "success" => hasCookies(store) /\ graceTimers > 0

C4Step ==
  /\ (StatusOp' = "success" /\ (StatusOp # "success" \/ store' # store))
       => \E c \in ConnIds :
            /\ conns'[c].state = "open"
            /\ hasCookies(conns'[c].captured)
            /\ \A n \in Mandatory : store'[n] = conns'[c].captured[n]
  /\ (StatusOp # "success" /\ StatusOp' = "success")
       => /\ tabs' = tabs
          /\ closing' = closing
          /\ graceTimers' > graceTimers

C5Claim ==
  [][\A r \in StartIds : (DeadlineFire(r) /\ Running) => StatusOp' = "timeout"]_vars

\* C6: a failure to create the login tab during start, and an error on the
\* debugging connection of a relay of the running session, leave the status
\* operation reporting error.
C6Claim ==
  [][/\ \A r \in StartIds :
          (pc[r] = "creating" /\ pc'[r] = "failed") => StatusOp' = "error"
     /\ \A c \in ConnIds :
          (CdpError(c) /\ Running /\ conns[c].sid = session.id)
            => StatusOp' = "error"]_vars

\* C7: a stop request leaves no session record (status idle) and the stopped
\* session's deadline timer is no longer pending; a deadline timer only ever
\* becomes pending when its own start request is accepted, so it cannot fire
\* after the stop.
C7Thm ==
  [][/\ StopRequest
          => /\ session' = NoSession
             /\ StatusOp' = "idle"
             /\ session # NoSession => session.id \notin deadline'
     /\ \A r \in StartIds :
          (r \in deadline' /\ r \notin deadline)
            => pc[r] = "finish" /\ pc'[r] = "accepted"]_vars

C7Witness ==
  /\ lastReply = Reply("stop", 200)
  /\ session = NoSession
  /\ \E r \in StartIds : pc[r] = "accepted" /\ r \notin deadline
  /\ deadline = {}

\* C8: the reported status only moves idle->running, running->success,
\* running->timeout, running->error, or from anywhere back to idle.
AllowedMoves ==
  {<<"idle", "running">>, <<"running", "success">>,
   <<"running", "timeout">>, <<"running", "error">>}
  \cup {<<s, "idle">> : s \in {"running", "success", "timeout", "error"}}

C8Claim ==
  [][StatusOp' = StatusOp \/ <<StatusOp, StatusOp'>> \in AllowedMoves]_vars

\* C9: once each mandatory cookie has appeared on the session's network stream
\* while a relay of that session was listening (not necessarily the same
\* relay), the session is no longer running.
C9Claim == ~(Running /\ Mandatory \subseteq observed)

\* C10: once both mandatory cookies have appeared on the running session's
\* network stream with no relay listening, the session is no longer running.
C10Claim == ~(Running /\ Mandatory \subseteq unobserved)

\* C11: a relay connection gets a debugging connection to the browser only if
\* a running session exists when it arrives, and then to that session's tab;
\* arriving in any other state it is closed at once with nothing opened.
C11Thm ==
  [][\A c \in ConnIds :
       /\ (conns[c].state = "unused" /\ conns'[c].state # "unused")
            => IF Running
                 THEN conns'[c] = [state |-> "connecting", tab |-> session.tabId,
                                   sid |-> session.id, captured |-> EmptyObj]
                 ELSE conns'[c] = ClosedConn
       /\ (conns'[c].state = "connecting" /\ conns[c].state # "connecting")
            => conns[c].state = "unused" /\ Running
       /\ (conns'[c].state = "open" /\ conns[c].state # "open")
            => conns[c].state = "connecting"]_vars

C11Witness ==
  /\ \A r \in StartIds : pc[r] = "init"
  /\ conns[1] = ClosedConn

\* C13: merging is idempotent: for every store content and every update map,
\* merging the map a second time leaves the entries, their key order and the
\* rendered cookie header exactly as the first merge left them.
C13Thm ==
  [][(fnRes = 1 /\ fnRes' = 2)
       => /\ store' = store
          /\ keyOrder' = keyOrder
          /\ getCookieString(StoreObj') = getCookieString(StoreObj)]_vars

C13Witness ==
  /\ fnRes = 2
  /\ Len(keyOrder) = 3
  /\ fnArg.keys # keyOrder
  /\ Len(fnArg.keys) = 2
  /\ \A n \in DOMAIN fnArg.val : store[n] = fnArg.val[n]

\* C14: no store operation removes a name: the key set only grows, the keys
\* already there keep their place, and an entry changes only to the value the
\* merging operation of that step carries for it.
C14Thm ==
  [][/\ DOMAIN store \subseteq DOMAIN store'
     /\ Len(keyOrder') >= Len(keyOrder)
     /\ SubSeq(keyOrder', 1, Len(keyOrder)) = keyOrder
     /\ \A n \in DOMAIN store :
          store'[n] # store[n]
            => \/ /\ rf' = rf
                  /\ \E obj \in CaptureMaps :
                       /\ StoreObj' = setCookiesOrdered(StoreObj, obj)
                       /\ store'[n] = obj.val[n]
               \/ \E i \in RefreshIds :
                    /\ rf[i].pc = "idle" /\ rf'[i].pc = "reading"
                    /\ StoreObj' = refreshMerge(StoreObj, rf'[i].updates)
                    /\ n \in DOMAIN rf'[i].updates.val
                    /\ store'[n] = rf'[i].updates.val[n]]_vars

C14Witness ==
  \E i \in RefreshIds :
    /\ rf[i].pc = "reading"
    /\ Len(keyOrder) > Len(rf[i].updates.keys)
    /\ \A n \in DOMAIN rf[i].updates.val : store[n] = rf[i].updates.val[n]
    /\ \E n \in DOMAIN store : n \notin DOMAIN rf[i].updates.val /\ store[n] = 0

\* C15: a refresh whose persistence fails still ends normally: the merge into
\* the store is done before the file is touched, the steps that read and write
\* the file leave the store alone, and a refresh that had updates returns true
\* whatever happened to the file; no refresh ends with an error.
C15Thm ==
  [][\A i \in RefreshIds :
       /\ (rf[i].pc = "idle" /\ rf'[i].pc = "reading")
            => \A n \in DOMAIN rf'[i].updates.val : store'[n] = rf'[i].updates.val[n]
       /\ (rf[i].pc \in {"reading", "writing"} /\ rf'[i].pc # rf[i].pc)
            => /\ store' = store
               /\ keyOrder' = keyOrder
               /\ rf'[i].pc = "done" => rf'[i].result = "true"
       /\ rf'[i].result # "threw"]_vars

C15Witness ==
  \E i \in RefreshIds :
    /\ rf[i] = [NoRefresh EXCEPT !.pc = "done", !.result = "true"]
    /\ ~envFile.exists
    /\ hasCookies(store)
\* C12: a generation or upscale call sends an upstream request (root page
\* fetch, upload, StreamGenerate, full-size request, download) only while the
\* cookie store holds both mandatory cookies; a call that finds them missing
\* and cannot restore them ends with 401 having sent nothing.
C12Thm ==
  [][/\ reqs' # reqs => hasCookies(store')
     /\ reqs' # NoReqs => hasCookies(store')
     /\ (call.pc = "restoring" /\ ~hasCookies(store'))
          => call'.pc = "done" /\ call'.status = 401 /\ reqs' = NoReqs
     /\ (call.pc = "idle" /\ call'.pc # "idle" /\ ~hasCookies(store))
          => call'.pc = "restoring" /\ reqs' = NoReqs]_vars

C12Witness ==
  /\ call.pc = "done"
  /\ call.status = 401
  /\ call.kind = "upscale"
  /\ ~hasCookies(store)
  /\ PSID \in DOMAIN store
  /\ reqs = NoReqs

\* a page has a literal when the literal is there with a value after it
Has(html, key) == key \in DOMAIN html /\ html[key] # 0

\* C16: for every root page of a non-redirect response that has the three
\* mandatory literals, extraction returns exactly the page's CSRF token, build
\* id and session id, with push id and client context the page's values or
\* null when the page lacks them; a page that lacks one of the three makes
\* extraction fail with no token set returned.
C16Thm ==
  (fnRes # Pending /\ ~(fnArg.status >= 300 /\ fnArg.status < 400))
    => LET html == fnArg.html
       IN IF \A k \in MandatoryLiterals : Has(html, k)
            THEN fnRes = [ok |-> TRUE, at |-> html[AT], bl |-> html[BL],
                          fSid |-> html[FSID],
                          pushId |-> IF Has(html, PUSHID) THEN html[PUSHID] ELSE Null,
                          clientPctx |-> IF Has(html, PCTX) THEN html[PCTX] ELSE Null]
            ELSE /\ ~fnRes.ok
                 /\ fnRes.error \in MandatoryLiterals
                 /\ ~Has(html, fnRes.error)

C16Witness ==
  /\ fnArg.status = 500
  /\ fnRes.ok
  /\ fnRes.pushId = Null
  /\ fnRes.clientPctx # Null
  /\ PUSHID \in DOMAIN fnArg.html

\* C17: a root page response with a 3xx status ends token extraction with the
\* redirect error; the body is never read and no token set is returned.
C17Thm ==
  (call.res.status >= 300 /\ call.res.status < 400)
    => /\ call.pc = "done"
       /\ call.error = "redirect"
       /\ call.tokens = NoTokens
       /\ rf[1] = NoRefresh
       /\ reqs.tokens = 1
       /\ reqs = [NoReqs EXCEPT !.tokens = 1]

C17Witness ==
  /\ call.res.status = 301
  /\ call.error = "redirect"
  /\ call.kind = "generate"
  /\ call.natt = MaxAtt

\* C18: when token extraction returns a token set, every cookie the Set-Cookie
\* headers of that root page response carried under the mandatory prefix is in
\* the store with the header's value, and the cookie header the call builds
\* next is rendered from the store with those values.
C18Thm ==
  call.tokens.ok
    => /\ \A n \in DOMAIN call.res.updates.val :
            /\ Truthy(store, n)
            /\ store[n] = call.res.updates.val[n]
            /\ \E i \in 1..Len(call.cookies) : call.cookies[i] = <<n, call.res.updates.val[n]>>
       /\ call.cookies = getCookieString(StoreObj)

C18Witness ==
  /\ call.tokens.ok
  /\ call.pc = "uploadInit"
  /\ call.res.updates.keys = <<PSIDTS>>
  /\ call.cookies = <<<<PSID, 1>>, <<PSIDTS, MaxVal + 1>>>>

\* C19: in one upload the finalize request is sent only upon an init response
\* that succeeded and carried the upload URL; any other init outcome ends the
\* upload with an init error and no finalize request; a failed finalize ends it
\* with an upload error; neither request is sent twice for one upload.
C19Thm ==
  [][/\ \A a \in AttIds :
          /\ reqs'.fin[a] # reqs.fin[a]
               => /\ call.pc = "uploadInit" /\ call.att = a
                  /\ call'.initRes = "ok"
                  /\ reqs.init[a] = 1 /\ reqs.fin[a] = 0 /\ reqs'.fin[a] = 1
          /\ reqs'.init[a] # reqs.init[a]
               => reqs.init[a] = 0 /\ reqs'.init[a] = 1 /\ reqs.fin[a] = 0
     /\ (call.pc = "uploadInit" /\ call'.pc # "uploadInit" /\ call'.initRes # "ok")
          => /\ call'.initRes \in {"nourl", "http", "net"}
             /\ call'.pc = "done" /\ call'.error = "init"
             /\ reqs' = reqs
     /\ (call.pc = "uploadFin" /\ UploadFinResponse(FALSE))
          => call'.pc = "done" /\ call'.error = "finalize" /\ reqs' = reqs]_vars

C19Witness ==
  /\ call.pc = "done"
  /\ call.error = "init"
  /\ call.initRes = "nourl"
  /\ call.att = 2
  /\ reqs.init = [a \in AttIds |-> IF a <= 2 THEN 1 ELSE 0]
  /\ reqs.fin = [a \in AttIds |-> IF a = 1 THEN 1 ELSE 0]

\* C20: in a generation call with several attachments, the failure of one
\* upload, at either phase, leaves the call running and the remaining
\* attachments are still uploaded.
C20Claim ==
  [][(/\ call.natt > 1
      /\ \/ call.pc = "uploadInit" /\ call'.initRes \in {"nourl", "http", "net"}
         \/ call.pc = "uploadFin" /\ UploadFinResponse(FALSE))
       => /\ call'.pc # "done"
          /\ call.att < call.natt => reqs'.init[call.att + 1] = 1]_vars

\* C21: in a generate call a failed download of one image is skipped: the
\* next image of the response is still requested, the call ends with status
\* 200 once every image has been tried, and the images saved are returned.
C21Thm ==
  [][/\ (call.pc = "download" /\ call.kind = "generate" /\ call' # call
           /\ call'.saved = call.saved)
          => /\ call'.error = "none"
             /\ IF call.img < call.npng
                  THEN /\ call'.pc = "download" /\ call'.img = call.img + 1
                       /\ reqs'.dl = reqs.dl + 1
                  ELSE call'.pc = "done" /\ call'.status = 200
     /\ (call'.pc = "done" /\ call'.kind = "generate" /\ call'.npng > 0)
          => /\ call'.status = 200
             /\ reqs'.dl = call'.npng
             /\ call'.saved <= call'.npng]_vars

C21Witness ==
  /\ call.pc = "download"
  /\ call.kind = "generate"
  /\ call.npng = 2
  /\ call.img = 2
  /\ call.saved = 0
  /\ reqs.dl = 2

\* the entry a variant becomes
EntryOf(v, chunk) ==
  [url |-> v.url, imageToken |-> IF v.tok # 0 THEN v.tok ELSE Null, responseChunkId |-> chunk]

\* C22: the decoded image list never holds two entries with the same URL,
\* wherever that URL is met again (another line, candidate, container shape or
\* variant); the entries already in the list stay as they are, so the first
\* occurrence is the one kept; a group adds one entry for each distinct
\* non-empty variant URL not yet listed, two for two such URLs.
C22Thm ==
  [][LET old == fnRes.images
         new == fnRes'.images
     IN /\ \A j, k \in 1..Len(new) : new[j].url = new[k].url => j = k
        /\ Len(new) >= Len(old) /\ SubSeq(new, 1, Len(old)) = old
        /\ new # old => fnArg'.kind = "group" /\ fnArg'.group.ok
        /\ (fnRes.pos \in {"plain", "edit"} /\ fnArg'.kind = "group" /\ fnArg'.group.ok)
             => LET g == fnArg'.group
                    fresh == {u \in {g.v3.url, g.v6.url} : u >= 1 /\ ~Found(old, u)}
                IN /\ Len(new) = Len(old) + Cardinality(fresh)
                   /\ \A u \in fresh :
                        \E k \in (Len(old) + 1)..Len(new) :
                          new[k] = EntryOf(IF g.v3.url = u THEN g.v3 ELSE g.v6, fnRes.chunk)
                   /\ (g.v3.url \in fresh /\ g.v6.url \in fresh /\ g.v3.url # g.v6.url)
                        => /\ Len(new) = Len(old) + 2
                           /\ new[Len(old) + 1].url = g.v3.url
                           /\ new[Len(old) + 2].url = g.v6.url]_vars

C22Witness ==
  /\ fnRes.pos = "edit"
  /\ fnRes.chunk = Null
  /\ fnArg = [kind |-> "group",
              group |-> [ok |-> TRUE, v3 |-> [url |-> 1, tok |-> 0], v6 |-> [url |-> 1, tok |-> 0]]]
  /\ fnRes.images = <<[url |-> 1, imageToken |-> 1, responseChunkId |-> 1],
                      [url |-> 2, imageToken |-> Null, responseChunkId |-> 1]>>

\* C23: the conversation id and the response id of the decoded result are the
\* first non-null ones met: once an id has been extracted from a line, a later
\* line carrying another non-null value does not replace it.
C23Claim ==
  [][/\ fnRes.conversationId # Null => fnRes'.conversationId = fnRes.conversationId
     /\ fnRes.responseId # Null => fnRes'.responseId = fnRes.responseId]_vars

\* C24: a StreamGenerate response with a success status whose decoding finds
\* no image ends the call with the no-images error and never with a successful
\* answer; that error is another one than the error raised for a non-2xx
\* status.
C24Thm ==
  /\ (call.genRes = "ok" /\ call.nimages = 0)
       => /\ call.pc = "done"
          /\ call.status = 500
          /\ call.error = "noimages"
          /\ reqs.dl = 0
  /\ call.genRes = "http" => call.pc = "done" /\ call.error = "generate"
  /\ call.error = "noimages" => call.genRes = "ok" /\ call.nimages = 0
  /\ (call.pc = "done" /\ call.status = 200 /\ call.kind = "generate") => call.nimages >= 1

C24Witness ==
  /\ call.genRes = "ok"
  /\ call.nimages = 0
  /\ call.error = "noimages"
  /\ call.natt = 1
  /\ reqs.fin[1] = 1

\* a response that names a URL to go to next: a 3xx with Location or a
\* text/plain body that is a URL
Redirecting(resp) == resp.kind \in {"redirect", "text"} /\ resp.to # "none"

\* C25: one image fetch issues at most 8 requests; when the 8th request too is
\* answered by a redirect, ordinary or soft, the fetch fails instead of
\* returning bytes; a non-success response and a 3xx without Location fail it
\* as well; bytes are returned only for a success response that is no redirect.
C25Thm ==
  [][/\ fnRes'.nreq <= 8
     /\ (fnRes.pos = "waiting" /\ fnRes' # fnRes)
          => /\ (Redirecting(fnArg') /\ fnRes.nreq = 8)
                  => fnRes'.pos = "threw" /\ fnRes'.nreq = 8
             /\ (fnArg'.kind = "error" \/ (fnArg'.kind = "redirect" /\ fnArg'.to = "none"))
                  => fnRes'.pos = "threw" /\ fnRes'.result = "http"
             /\ fnRes'.pos = "returned" => fnArg'.kind = "binary"
             /\ fnRes'.pos \in {"waiting", "threw", "returned"}]_vars

C25Witness ==
  /\ fnRes.pos = "threw"
  /\ fnRes.nreq = 8
  /\ fnRes.soft = 3
  /\ fnArg.kind = "text"
  /\ fnArg.to = "other"

C27Thm ==
  [][/\ fnRes'.pos # "idle" => fnRes'.sent = fnRes'.cookie
     /\ fnRes.pos # "idle" => fnRes'.cookie = fnRes.cookie
     /\ (fnRes.pos = "idle" /\ fnRes'.pos # "idle")
          => fnRes'.cookie = getCookieString(StoreObj)]_vars

C27Witness ==
  /\ fnRes.pos = "waiting"
  /\ fnRes.nreq = 3
  /\ fnArg.kind = "redirect"
  /\ fnArg.to = "other"
  /\ fnRes.sent = <<<<PSID, 1>>, <<PSIDTS, 1>>>>
  /\ store[PSIDTS] = MaxVal + 1

\* the entries of a line that are tagged for the upscale procedure and carry
\* a payload string
Tagged(line) ==
  {k \in 1..Len(line.entries) : line.entries[k].kind = "upscale" /\ line.entries[k].has}

\* C28: the full-size request returns a URL only from a line with an entry
\* tagged for the upscale procedure whose payload parses to a non-empty first
\* element, and the URL returned is that element with the suffix "=d-I?alr=yes"
\* appended; lines that are malformed, carry no such entry or only entries of
\* another procedure yield nothing, and when no line yields a URL the function
\* fails with the parse error.
C28Thm ==
  [][/\ fnArg' = NoInput
          => fnRes'.pos = "threw" /\ fnRes'.error = "parse" /\ fnRes.fullSizeUrl < 1
     /\ fnArg' # NoInput
       => LET line == fnArg'
          IN /\ fnRes'.pos = "returned"
                  => /\ line.kind = "array"
                     /\ \E k \in Tagged(line) :
                          /\ line.entries[k].json
                          /\ line.entries[k].first >= 1
                          /\ fnRes'.downloadUrl = <<line.entries[k].first, "=d-I?alr=yes">>
                          /\ \A j \in Tagged(line) : j >= k
             /\ (line.kind # "array" \/ Tagged(line) = {})
                  => fnRes'.pos = "lines" /\ fnRes'.fullSizeUrl = fnRes.fullSizeUrl
             /\ fnRes'.pos \in {"lines", "returned"}
             /\ fnRes'.pos = "lines" => fnRes'.fullSizeUrl < 1]_vars

C28Witness ==
  /\ fnRes.pos = "returned"
  /\ fnRes.downloadUrl = <<2, "=d-I?alr=yes">>
  /\ Len(fnArg.entries) = 2
  /\ fnArg.entries[1] = [kind |-> "otherproc", has |-> TRUE, json |-> TRUE, first |-> 1]

\* the commands of every click are in the order moved, pressed, released, each
\* at most once and at the click's coordinates
PointerRank(type) == CHOOSE n \in 1..3 : PointerTypes[n] = type
PointerOrder(sent, clicks) ==
  \A i, j \in 1..Len(sent) :
    /\ sent[i].x = clicks[sent[i].click].x
    /\ (i < j /\ sent[i].click = sent[j].click)
         => PointerRank(sent[i].type) < PointerRank(sent[j].type)

\* C29: a click's pointer commands reach the browser in the order mouseMoved,
\* mousePressed, mouseReleased at the click's coordinates, each only when its
\* own turn (the message, the 30 ms timer, the 50 ms timer) comes; a command
\* whose turn comes while the debugging socket is not open is dropped, never
\* sent later, and the commands that are sent keep their order.
C29Thm ==
  [][/\ (fnRes' # fnRes) =>
          /\ conns[1].state = "open"
          /\ \E k \in ClickIds :
               /\ fnArg'[k].stage = fnArg[k].stage + 1
               /\ fnRes' = Append(fnRes, [click |-> k,
                                          type |-> PointerTypes[fnArg'[k].stage],
                                          x |-> fnArg'[k].x])
     /\ (fnArg' # fnArg /\ conns[1].state # "open") => fnRes' = fnRes
     /\ PointerOrder(fnRes', fnArg')]_vars

\* the first click lost its mouseMoved to a socket still connecting, its two
\* later commands were sent, and a second click's commands came in between
C29Witness ==
  /\ fnArg[1].stage = 3
  /\ Len(fnRes) >= 4
  /\ fnRes[1].click = 2
  /\ fnRes[1].type = "mouseMoved"
  /\ \E i, j \in 1..Len(fnRes) :
       /\ i < j
       /\ fnRes[i] = [click |-> 1, type |-> "mousePressed", x |-> fnArg[1].x]
       /\ fnRes[j] = [click |-> 1, type |-> "mouseReleased", x |-> fnArg[1].x]
       /\ \E m \in (i + 1)..(j - 1) : fnRes[m].click = 2
  /\ \A i \in 1..Len(fnRes) : fnRes[i].click = 1 => fnRes[i].type # "mouseMoved"

\* C30: when the grace timer armed by a succeeded session fires while a newer
\* session is running, that session stays as it is: its record, its deadline
\* timer and its tab (not handed to the asynchronous tab close) are untouched.
C30Claim ==
  [][(graceTimers' = graceTimers - 1 /\ Running) =>
       /\ session' = session
       /\ deadline' = deadline
       /\ closing' = closing]_vars

\* C31: a relay attached for an earlier session never acts on a later one: a
\* running session is set to success, and the store is merged into while it
\* runs, only when a relay attached for that very session received the event.
C31Claim ==
  [][(Running /\ (store' # store \/ (session' # NoSession /\ session'.status = "success")))
       => \E c \in ConnIds :
            /\ conns[c].state = "open"
            /\ conns[c].sid = session.id
            /\ hasCookies(conns'[c].captured)]_vars

\* C32: with one start request in flight and no further one made, once a stop
\* request has been answered the session does not become running: no step
\* taken while the stop is the last request answered installs a running session.
C32Claim ==
  [][lastReply = Reply("stop", 200) => ~Running']_vars

\* C33: an input command reaches the browser over a relay only while the
\* session is running: no step taken after the session succeeded, was stopped
\* or timed out adds a command to what the browser received.
C33Claim ==
  [][fnRes' # fnRes => Running]_vars

\* C34: once every refresh has completed, all reads and writes of the file
\* having succeeded, the file holds for every name of the store (those of the
\* boot and those refreshed) the value the store holds.
C34Claim ==
  (\A i \in RefreshIds : rf[i].pc = "done")
    => \A n \in DOMAIN store :
         n \in DOMAIN envFile.lines /\ envFile.lines[n] = store[n]

\* C35: under any interleaving of ensureChromium calls at most one browser
\* process is running, no call kills the process of a call that is still
\* waiting for it to come up, a call returns normally only when the endpoint
\* answered its own probe or the start it waited for succeeded, and a start
\* that ended, normally or not, no longer is the one in progress.
C35Claim ==
  [][/\ Cardinality(fnRes'.live) <= 1
     /\ \A p \in CallIds :
          (p \in fnRes.live /\ p \in fnRes'.killed) => fnArg[p].pc # "polling"
     /\ \A k \in CallIds :
          /\ (fnArg'[k].pc = "done" /\ fnArg[k].pc \in {"probing", "polling"})
               => Answers(fnRes)
          /\ fnArg'[k].pc \in {"done", "failed"} => fnRes'.starting # k]_vars

\* C36: when the last response of an image fetch is a 2xx response (other
\* content, a text/plain body that is no https URL, or a soft redirect met on
\* the last allowed hop), the fetch returns that response's body.
C36Claim ==
  [][(fnRes.pos = "waiting" /\ fnRes'.pos # "waiting" /\ fnArg'.kind \in {"binary", "text"})
       => fnRes'.pos = "returned" /\ fnRes'.bytes = fnArg'.body]_vars

\* C37: once the store holds both mandatory cookies it holds them after every
\* later operation: a merge of a capture map (login, restore, relay) or of
\* Set-Cookie updates never removes a mandatory cookie nor empties it.  Every
\* map the capture filters build from a browser event and the both-present
\* test lets through is one of the capture maps merged here (a fact about the
\* filters alone, evaluated at boot).
C37Thm ==
  [][/\ hasCookies(store) => hasCookies(store')
     /\ ~booted =>
          \A k \in EventKinds, raw \in RawEvents :
            hasCookies(ParseCookies(k, raw))
              => \E o \in CaptureMaps : o.val = ParseCookies(k, raw)]_vars

\* the store held both mandatory cookies, and a refresh and a capture merge
\* have both acted on it since
C37Witness ==
  /\ hasCookies(store)
  /\ \E i \in RefreshIds : rf[i].pc = "done" /\ rf[i].result = "true"
  /\ keyOrder # <<>> /\ keyOrder[1] = PSIDTS

\* the login requests whose flow is executing
Flowing(a) == {k \in LoginIds : a[k].pc \in {"polling", "closing"}}

\* C38: at most one local login flow executes at a time; a request arriving
\* while one executes is answered 409 and changes nothing else; a request
\* arriving while none executes is accepted; and when a flow ends, by success
\* or by error, the in-progress flag is cleared.
C38Thm ==
  [][/\ Cardinality(Flowing(fnArg')) <= 1
     /\ \A k \in LoginIds :
          /\ (fnArg[k].pc = "idle" /\ fnArg'[k].pc # "idle")
               => IF Flowing(fnArg) # {}
                    THEN /\ fnArg' = [fnArg EXCEPT ![k].pc = "rejected"]
                         /\ fnRes' = fnRes
                         /\ store' = store
                    ELSE fnArg'[k].pc = "polling" /\ fnRes'
          /\ (k \in Flowing(fnArg) /\ k \notin Flowing(fnArg'))
               => fnArg'[k].pc \in {"done", "failed"} /\ ~fnRes'
     /\ fnRes' <=> Flowing(fnArg') # {}]_vars

\* a flow failed, a request made during another flow was rejected, and a
\* request made after that succeeded
C38Witness ==
  /\ fnArg[1].pc = "failed"
  /\ fnArg[2].pc = "done"
  /\ fnArg[3].pc = "rejected"
  /\ ~fnRes

\* C39: the login flow merges its capture map into the store only when it
\* holds both mandatory cookies; a flow whose wait loop ended by the timeout,
\* or by the detection of a logged-in page with one mandatory cookie captured,
\* ends with an error and the store as it was.
C39Claim ==
  [][\A k \in LoginIds :
       /\ (fnArg[k].pc = "closing" /\ store' # store)
            => hasCookies(fnArg[k].captured) /\ store' = setCookies(store, fnArg[k].captured)
       /\ (fnArg[k].pc = "closing" /\ fnArg'[k].pc # "closing"
             /\ fnArg[k].left \in {"timeout", "page"})
            => fnArg'[k].pc = "failed" /\ store' = store]_vars

====
